---- MODULE Spec2Model ----
(***************************************************************************)
(* A model of xlrd's OLE2 compound-document reader (xlrd/compdoc.py) and   *)
(* of the BIFF workbook loader (xlrd/book.py).                             *)
(*                                                                         *)
(* Bytes.  The container file holds, at absolute position p, the byte      *)
(* value p: every byte of the file is distinct, so a buffer is the right   *)
(* one exactly when it holds the right positions in the right order.       *)
(* Python's None is the buffer of kind "None"; the shared file buffer      *)
(* (the object `mem` itself) is the buffer of kind "mem".                  *)
(***************************************************************************)
EXTENDS Integers, Sequences, FiniteSets, TLC

VARIABLES cd, cd_log, file, bk, maps, made, pc, err, raised, last, nops

(***************************************************************************)
(* Sentinels and sizes                                                     *)
(***************************************************************************)
EOCSID == -2
FREESID == -1
SATSID == -3
MSATSID == -4
EVILSID == -5

\* offset of sector 0 in the file: the header is 512 bytes
HEADER_SIZE == 512

\* number of sectors whose allocation-table entry the input chooses freely
NFree == 2
\* bytes in a sector (1 << ssz) and in a short sector (1 << sssz)
sec_size == 2
short_sec_size == 1
\* streams of at least this many bytes are returned as a lazy view when
\* fragmented (the source's cut-off is 1024 * 1024 * 90)
SCATTER_MIN == 4
\* lookups made on one CompDoc
MaxCalls == 2

\* layout of the modelled containers: sectors 0 .. NFree-1, then the
\* directory sector, then the sector holding the allocation table
DirSector == NFree
SATSector == NFree + 1
mem_data_secs == NFree + 2
mem_data_len == mem_data_secs * sec_size
file_len == HEADER_SIZE + mem_data_len

Sids == 0 .. (mem_data_secs - 1)
\* what an allocation-table entry may hold: a sentinel, a sector of the
\* file, or a sector id past the end of the file
SidVals == {EOCSID, FREESID} \cup (0 .. mem_data_secs)

Min(a, b) == IF a < b THEN a ELSE b
Max(a, b) == IF a > b THEN a ELSE b

(***************************************************************************)
(* Buffers and Python slicing                                              *)
(***************************************************************************)
NoneBuf == [kind |-> "None", data |-> <<>>, slices |-> <<>>]
MemBuf == [kind |-> "mem", data |-> <<>>, slices |-> <<>>]
BytesBuf(d) == [kind |-> "bytes", data |-> d, slices |-> <<>>]
ScatteredBuf(sl) == [kind |-> "scattered", data |-> <<>>, slices |-> sl]

\* mem[a:b] of the container file, 0 <= a
FileBytes(a, b) ==
    LET hi == Min(b, file_len)
    IN  IF hi <= a THEN <<>> ELSE [i \in 1 .. (hi - a) |-> a + i - 1]

\* data[a:b] of a byte string, 0 <= a
SeqBytes(data, a, b) ==
    LET hi == Min(b, Len(data))
    IN  IF hi <= a THEN <<>> ELSE [i \in 1 .. (hi - a) |-> data[a + i]]

RECURSIVE Join(_)
Join(parts) ==
    IF parts = <<>> THEN <<>> ELSE Head(parts) \o Join(Tail(parts))

(***************************************************************************)
(* ScatteredMemory                                                         *)
(***************************************************************************)
RECURSIVE SumTo(_, _)
SumTo(sizes, n) == IF n = 0 THEN 0 ELSE sizes[n] + SumTo(sizes, n - 1)

cum_sum(slices) ==
    LET sizes == [i \in 1 .. Len(slices) |-> slices[i][2] - slices[i][1]]
    IN  [x \in 1 .. Len(slices) |-> SumTo(sizes, x)]

\* bisect_left(a, x): the number of entries of the sorted list a below x
bisect_left(a, x) == Cardinality({i \in 1 .. Len(a) : a[i] < x})

\* ScatteredMemory.__getitem__(slice(start, end))
ScatteredSlice(slices, start, end) ==
    LET cs == cum_sum(slices)
        length == end - start
        idx_0 == bisect_left(cs, start)
        idx_1 == bisect_left(cs, end)
        d_start == IF idx_0 = 0 THEN 0 ELSE cs[idx_0]
        picked == SubSeq(slices, idx_0 + 1, Min(idx_1 + 1, Len(slices)))
        data == Join([i \in 1 .. Len(picked) |->
                        FileBytes(picked[i][1], picked[i][2])])
        _start == start - d_start
    IN  SeqBytes(data, _start, _start + length)

\* buf[a:b] for any buffer a lookup returns
Slice(buf, a, b) ==
    CASE buf.kind = "mem" -> FileBytes(a, b)
      [] buf.kind = "bytes" -> SeqBytes(buf.data, a, b)
      [] buf.kind = "scattered" -> ScatteredSlice(buf.slices, a, b)
      [] OTHER -> <<>>

\* bool(buf): what `if self.mem:` tests
Truthy(buf) ==
    CASE buf.kind = "None" -> FALSE
      [] buf.kind = "bytes" -> Len(buf.data) > 0
      [] buf.kind = "mem" -> file_len > 0
      [] OTHER -> TRUE

(***************************************************************************)
(* Outcome of a call: exc is "" when the call returns, else the name of    *)
(* the exception that leaves it.                                           *)
(***************************************************************************)
Zeros(n) == [i \in 1 .. n |-> 0]

\* array.array('B') cells hold 0 .. 255; storing anything else raises
CellMax == 255

(***************************************************************************)
(* CompDoc._get_stream.  size = -1 stands for size=None and seen_id = -1   *)
(* for seen_id=None.  st = [s, todo, sectors, seen, fuel].  A walk without *)
(* a seen set that has taken more sectors than the table has entries is in *)
(* a cycle and never leaves the loop: its outcome is "NonTermination".     *)
(* The outcome names the sector id the walk stopped at (s) and whether the *)
(* walk stopped at the test of a seen cell that was set (hit).             *)
(***************************************************************************)
RECURSIVE GetStreamWalk(_, _, _, _, _, _, _)
GetStreamWalk(mem, base, sat, ssz, size, seen_id, st) ==
    LET s == st.s
        out(e, sn) == [exc |-> e, data |-> Join(st.sectors), seen |-> sn,
                       todo |-> st.todo, s |-> s,
                       hit |-> /\ seen_id # -1
                               /\ s >= 0 /\ s < Len(st.seen)
                               /\ st.seen[s + 1] # 0]
    IN  IF s < 0
        THEN out(IF s = EOCSID THEN "" ELSE "AssertionError", st.seen)
        ELSE IF seen_id # -1 /\ s >= Len(st.seen)
        THEN out("IndexError", st.seen)
        ELSE IF seen_id # -1 /\ st.seen[s + 1] # 0
        THEN out("CompDocError", st.seen)
        ELSE IF seen_id > CellMax
        THEN out("OverflowError", st.seen)
        ELSE IF st.fuel = 0
        THEN out("NonTermination", st.seen)
        ELSE LET seen1 == IF seen_id # -1
                          THEN [st.seen EXCEPT ![s + 1] = seen_id]
                          ELSE st.seen
                 start_pos == base + s * ssz
                 grab == IF size # -1 THEN Min(ssz, st.todo) ELSE ssz
                 piece == Slice(mem, start_pos, start_pos + grab)
             IN  IF s >= Len(sat)
                 THEN out("CompDocError", seen1)
                 ELSE GetStreamWalk(mem, base, sat, ssz, size, seen_id,
                        [s |-> sat[s + 1],
                         todo |-> IF size # -1 THEN st.todo - grab ELSE st.todo,
                         sectors |-> Append(st.sectors, piece),
                         seen |-> seen1,
                         fuel |-> st.fuel - 1])

_get_stream(seen, mem, base, sat, ssz, start_sid, size, seen_id) ==
    GetStreamWalk(mem, base, sat, ssz, size, seen_id,
        [s |-> start_sid, todo |-> size, sectors |-> <<>>, seen |-> seen,
         fuel |-> Len(sat) + 1])

(***************************************************************************)
(* CompDoc._locate_stream.  st = [s, p, start_pos, end_pos, slices,        *)
(* tot_found, seen, hit]; slices are pairs <<start_pos, end_pos>>; hit     *)
(* records that the walk reached a sector whose seen cell was not 0.       *)
(***************************************************************************)
LocResult(e, buf, base, len, sn) ==
    [exc |-> e, mem |-> buf, base |-> base, len |-> len, seen |-> sn,
     hit |-> FALSE, s |-> EOCSID]

\* the adjacency test dropped: every sector after the first continues the slice
IsContiguous_NoAdjacency(s, p) == p >= 0
\* s == p + 1: the sector continues the current slice
IsContiguous(s, p) == s = p + 1

\* the seen cell not consulted: a revisit never raises
RevisitRaises_Never(ignore, mark) == FALSE
\* the flag not consulted: a revisit always raises
RevisitRaises_FlagUnused(ignore, mark) == mark # 0
\* the revisit test of the walk: raise unless corruption is ignored
RevisitRaises(ignore, mark) == mark # 0 /\ ~ignore

RECURSIVE LocateWalk(_, _, _, _, _, _)
LocateWalk(sat, ssz, base, ignore, found_limit_seen_id, st) ==
    LET s == st.s
        found_limit == found_limit_seen_id[1]
        seen_id == found_limit_seen_id[2]
    IN  IF s < 0 THEN [st EXCEPT !.exc = ""]
        ELSE IF s >= Len(st.seen) THEN [st EXCEPT !.exc = "IndexError"]
        ELSE IF RevisitRaises(ignore, st.seen[s + 1])
        THEN [st EXCEPT !.exc = "CompDocError", !.hit = TRUE]
        ELSE IF seen_id > CellMax THEN [st EXCEPT !.exc = "OverflowError"]
        ELSE LET seen1 == [st.seen EXCEPT ![s + 1] = seen_id]
                 tot == st.tot_found + 1
                 contiguous == IsContiguous(s, st.p)
                 hit1 == st.hit \/ st.seen[s + 1] # 0
             IN  IF tot > found_limit
                 THEN [st EXCEPT !.exc = "CompDocError", !.seen = seen1,
                                 !.tot_found = tot, !.hit = hit1]
                 ELSE IF s >= Len(sat)
                 THEN [st EXCEPT !.exc = "IndexError", !.seen = seen1,
                                 !.tot_found = tot, !.hit = hit1]
                 ELSE LocateWalk(sat, ssz, base, ignore, found_limit_seen_id,
                        [s |-> sat[s + 1],
                         p |-> s,
                         start_pos |-> IF contiguous THEN st.start_pos
                                       ELSE base + s * ssz,
                         end_pos |-> IF contiguous THEN st.end_pos + ssz
                                     ELSE base + s * ssz + ssz,
                         slices |-> IF ~contiguous /\ st.p >= 0
                                    THEN Append(st.slices,
                                                <<st.start_pos, st.end_pos>>)
                                    ELSE st.slices,
                         tot_found |-> tot,
                         seen |-> seen1,
                         hit |-> hit1,
                         exc |-> ""])

_locate_stream(seen, ignore, base, sat, ssz, start_sid, expected_stream_size, seen_id) ==
    IF start_sid < 0
    THEN LocResult("CompDocError", NoneBuf, 0, 0, seen)
    ELSE
    LET found_limit == (expected_stream_size + ssz - 1) \div ssz
        w == LocateWalk(sat, ssz, base, ignore, <<found_limit, seen_id>>,
                [s |-> start_sid, p |-> -99, start_pos |-> -9999,
                 end_pos |-> -8888, slices |-> <<>>, tot_found |-> 0,
                 seen |-> seen, hit |-> FALSE, exc |-> ""])
        slices == Append(w.slices, <<w.start_pos, w.end_pos>>)
        res(e, buf, off, n) ==
            [LocResult(e, buf, off, n, w.seen) EXCEPT !.hit = w.hit,
                                                      !.s = w.s]
    IN  IF w.exc # "" THEN res(w.exc, NoneBuf, 0, 0)
        ELSE IF w.s # EOCSID \/ w.tot_found # found_limit
        THEN res("AssertionError", NoneBuf, 0, 0)
        ELSE IF w.slices = <<>>
        THEN res("", MemBuf, w.start_pos, expected_stream_size)
        ELSE IF expected_stream_size < SCATTER_MIN
        THEN res("",
                BytesBuf(Join([i \in 1 .. Len(slices) |->
                                 FileBytes(slices[i][1], slices[i][2])])),
                0, expected_stream_size)
        ELSE res("", ScatteredBuf(slices), 0, expected_stream_size)

(***************************************************************************)
(* Directory.  dirlist[DID + 1] is entry DID; etype 1 = storage,           *)
(* 2 = stream, 5 = root.                                                   *)
(***************************************************************************)
DirNode(DID, name, etype, first_SID, tot_size, children) ==
    [DID |-> DID, name |-> name, etype |-> etype, first_SID |-> first_SID,
     tot_size |-> tot_size, children |-> children]

\* str.lower() on the names the model uses
lower(name) ==
    CASE name = "Workbook" -> "workbook"
      [] name = "WORKBOOK" -> "workbook"
      [] name = "Book" -> "book"
      [] name = "BOOK" -> "book"
      [] name = "Stg" -> "stg"
      [] name = "STG" -> "stg"
      [] name = "Missing" -> "missing"
      [] OTHER -> name

\* qname.split("/") on the names the model uses
split(qname) ==
    CASE qname = "Stg/Workbook" -> <<"Stg", "Workbook">>
      [] qname = "stg/workbook" -> <<"stg", "workbook">>
      [] qname = "Stg/Missing" -> <<"Stg", "Missing">>
      [] qname = "Missing/Workbook" -> <<"Missing", "Workbook">>
      [] qname = "Book/Workbook" -> <<"Book", "Workbook">>
      [] qname = "Stg/Workbook/Book" -> <<"Stg", "Workbook", "Book">>
      [] OTHER -> <<qname>>

\* CompDoc._dir_search: did = -1 stands for None
RECURSIVE DirSearchFrom(_, _, _, _)
DirSearchFrom(dl, path, storage_DID, k) ==
    LET kids == dl[storage_DID + 1].children
    IN  IF k > Len(kids) THEN [exc |-> "", did |-> -1]
        ELSE LET child == kids[k]
                 et == dl[child + 1].etype
             IN  IF lower(dl[child + 1].name) = lower(Head(path))
                 THEN IF et = 2 THEN [exc |-> "", did |-> child]
                      ELSE IF et = 1
                      THEN IF Tail(path) = <<>>
                           THEN [exc |-> "CompDocError", did |-> -1]
                           ELSE DirSearchFrom(dl, Tail(path), child, 1)
                      ELSE [exc |-> "CompDocError", did |-> -1]
                 ELSE DirSearchFrom(dl, path, storage_DID, k + 1)

_dir_search(dl, path) == DirSearchFrom(dl, path, 0, 1)

(***************************************************************************)
(* CompDoc.__init__ on a container file.  The file gives the decoded       *)
(* allocation table (held by sector SATSector, the one non-free entry of   *)
(* the header's master table), the directory entries (held by the chain    *)
(* that starts at DirSector), the header's short-table fields and the      *)
(* entries the short-table sector holds.                                   *)
(***************************************************************************)
dir_first_sec_sid == DirSector

\* the loop that builds self.SSAT: st = [sid, nsecs, SSAT, seen, hit]
RECURSIVE SSATWalk(_, _, _)
SSATWalk(sat, ent, st) ==
    IF ~(st.sid >= 0 /\ st.nsecs > 0)
    THEN [st EXCEPT !.exc = IF st.nsecs = 0 /\ st.sid = EOCSID
                             THEN "" ELSE "AssertionError"]
    ELSE IF st.sid >= Len(st.seen) THEN [st EXCEPT !.exc = "IndexError"]
    ELSE IF st.seen[st.sid + 1] # 0
    THEN [st EXCEPT !.exc = "CompDocError", !.hit = TRUE]
    ELSE IF st.sid >= Len(sat)
    THEN [st EXCEPT !.exc = "IndexError", !.SSAT = st.SSAT \o ent,
                    !.nsecs = st.nsecs - 1, !.seen[st.sid + 1] = 5]
    ELSE SSATWalk(sat, ent,
            [sid |-> sat[st.sid + 1], nsecs |-> st.nsecs - 1,
             SSAT |-> st.SSAT \o ent,
             seen |-> [st.seen EXCEPT ![st.sid + 1] = 5], hit |-> FALSE,
             exc |-> ""])

CompDoc__init__(cdfile, ignore_workbook_corruption) ==
    LET seen2 == [Zeros(mem_data_secs) EXCEPT ![SATSector + 1] = 2]
        dbytes == _get_stream(seen2, MemBuf, HEADER_SIZE, cdfile.SAT, sec_size,
                              dir_first_sec_sid, -1, 3)
        sscs_dir == cdfile.dirlist[1]
        sscs == IF sscs_dir.first_SID < 0 \/ sscs_dir.tot_size = 0
                THEN [exc |-> "", data |-> <<>>, seen |-> dbytes.seen]
                ELSE _get_stream(dbytes.seen, MemBuf, HEADER_SIZE, cdfile.SAT,
                                 sec_size, sscs_dir.first_SID,
                                 sscs_dir.tot_size, 4)
        ssat == IF sscs_dir.tot_size > 0
                THEN SSATWalk(cdfile.SAT, cdfile.SSATent,
                        [sid |-> cdfile.SSAT_first_sec_sid,
                         nsecs |-> cdfile.SSAT_tot_secs, SSAT |-> <<>>,
                         seen |-> sscs.seen, hit |-> FALSE, exc |-> ""])
                ELSE [SSAT |-> <<>>, seen |-> sscs.seen, exc |-> ""]
        exc == IF dbytes.exc # "" THEN dbytes.exc
               ELSE IF sscs_dir.etype # 5 THEN "AssertionError"
               ELSE IF sscs.exc # "" THEN sscs.exc
               ELSE ssat.exc
    IN  [exc |-> exc,
         ignore_workbook_corruption |-> ignore_workbook_corruption,
         SAT |-> cdfile.SAT,
         seen |-> ssat.seen,
         dirlist |-> cdfile.dirlist,
         min_size_std_stream |-> cdfile.min_size_std_stream,
         SSCS |-> BytesBuf(sscs.data),
         SSAT |-> ssat.SSAT]

(***************************************************************************)
(* CompDoc.locate_named_stream                                             *)
(***************************************************************************)
\* the guard on the declared size left out
SizeTooBig_Never(tot_size) == FALSE
\* the guard on the declared size
SizeTooBig(tot_size) == tot_size > mem_data_len

locate_named_stream(c, qname) ==
    LET found == _dir_search(c.dirlist, split(qname))
        d == c.dirlist[found.did + 1]
    IN  IF found.exc # "" THEN LocResult(found.exc, NoneBuf, 0, 0, c.seen)
        ELSE IF found.did = -1 THEN LocResult("", NoneBuf, 0, 0, c.seen)
        ELSE IF SizeTooBig(d.tot_size)
        THEN LocResult("CompDocError", NoneBuf, 0, 0, c.seen)
        ELSE IF d.tot_size >= c.min_size_std_stream
        THEN _locate_stream(c.seen, c.ignore_workbook_corruption, HEADER_SIZE,
                            c.SAT, sec_size, d.first_SID, d.tot_size,
                            d.DID + 6)
        ELSE LET g == _get_stream(c.seen, c.SSCS, 0, c.SSAT, short_sec_size,
                                  d.first_SID, d.tot_size, -1)
             IN  IF g.exc # ""
                 THEN [LocResult(g.exc, NoneBuf, 0, 0, c.seen) EXCEPT !.s = g.s]
                 ELSE LocResult("", BytesBuf(g.data), 0, d.tot_size, c.seen)

(***************************************************************************)
(* The container files of the model                                        *)
(***************************************************************************)
RootEntry(first_SID, tot_size) ==
    DirNode(0, "Root Entry", 5, first_SID, tot_size, <<1, 2>>)
Stream(DID, name, first_SID, tot_size) ==
    DirNode(DID, name, 2, first_SID, tot_size, <<>>)

\* the allocation table whose free entries are g, the directory chain one
\* sector long
TableOf(g) ==
    [i \in 1 .. mem_data_secs |->
        IF i = SATSector + 1 THEN SATSID
        ELSE IF i = DirSector + 1 THEN EOCSID
        ELSE g[i]]

\* declared sizes: those that fill k sectors exactly or but for one byte,
\* for up to one sector more than the free ones, and one past the file's
\* data size
StdSizes ==
    { z \in 0 .. (mem_data_len + 1) :
        \/ z = mem_data_len + 1
        \/ \E k \in 0 .. (NFree + 1) : z = k * sec_size \/ z = k * sec_size - 1 }

\* containers with no short-stream container: the named streams live in
\* the free sectors
StdFiles ==
    { [SAT |-> TableOf(g),
       dirlist |-> << RootEntry(EOCSID, 0),
                      Stream(1, "Workbook", f1, z1),
                      Stream(2, "Book", NFree - 1, sec_size) >>,
       min_size_std_stream |-> sec_size,
       SSAT_first_sec_sid |-> EOCSID,
       SSAT_tot_secs |-> 0,
       SSATent |-> <<>>] :
      g \in [1 .. NFree -> SidVals],
      f1 \in {EOCSID} \cup (0 .. NFree),
      z1 \in StdSizes }

\* short sectors in a short-stream container of one sector
NShort == (sec_size + short_sec_size - 1) \div short_sec_size

\* containers whose sector 0 is the short-stream container and whose
\* sector 1 holds the short allocation table: the named streams are short
ShortFiles ==
    { [SAT |-> TableOf([i \in 1 .. NFree |-> IF i <= 2 THEN EOCSID
                                             ELSE FREESID]),
       dirlist |-> << RootEntry(0, sec_size),
                      Stream(1, "Workbook", f1, z1),
                      Stream(2, "Book", EOCSID, 0) >>,
       min_size_std_stream |-> 2 * sec_size,
       SSAT_first_sec_sid |-> 1,
       SSAT_tot_secs |-> 1,
       SSATent |-> e] :
      e \in [1 .. NShort -> {EOCSID, FREESID} \cup (0 .. NShort)],
      f1 \in {EOCSID} \cup (0 .. (NShort - 1)),
      z1 \in 0 .. (2 * sec_size - 1) }

CDFiles == StdFiles \cup ShortFiles

\* containers with a storage in the root: entry 1 ("Stg") is a storage
\* holding entry 3 or a stream, entry 3 ("WORKBOOK") a stream, a storage or
\* an empty entry; every stream is one sector long
DirFiles ==
    { [SAT |-> TableOf([i \in 1 .. NFree |-> EOCSID]),
       dirlist |-> << RootEntry(EOCSID, 0),
                      DirNode(1, "Stg", t1, 0, sec_size,
                              IF t1 = 1 THEN <<3>> ELSE <<>>),
                      Stream(2, "Book", 1, sec_size),
                      DirNode(3, "WORKBOOK", t3, 0, sec_size, <<>>) >>,
       min_size_std_stream |-> sec_size,
       SSAT_first_sec_sid |-> EOCSID,
       SSAT_tot_secs |-> 0,
       SSATent |-> <<>>] :
      t1 \in {1, 2}, t3 \in {0, 1, 2} }

(***************************************************************************)
(* BIFF records (xlrd/book.py)                                             *)
(*                                                                         *)
(* The buffer bk.mem decodes, from bk.base on, as a sequence of records;   *)
(* a record is its code, the length of its payload and the fields of the   *)
(* payload the loader reads:                                               *)
(*   BOF          name = stream type, n1 = opcode >> 8, n2 = version2,     *)
(*                n3 = 1 when build/year select BIFF 5.0                   *)
(*   BOUNDSHEET   name = sheet name, n1 = offset, n2 = sheet type          *)
(*   SHEETHDR     name = sheet name, n1 = sheet_len                        *)
(*   SHEETSOFFSET n1 = offset                                              *)
(*   EXTERNSHEET  n1 = num_refs                                            *)
(*   FILEPASS     n1 = kind1                                               *)
(***************************************************************************)
Rec(code, length, name, n1, n2, n3) ==
    [code |-> code, length |-> length, name |-> name,
     n1 |-> n1, n2 |-> n2, n3 |-> n3]

\* offset, from the start of the stream, of record i (1-based); the
\* offset of record Len + 1 is the length of the stream
RECURSIVE Off(_, _)
Off(recs, i) ==
    IF i <= 1 THEN 0 ELSE Off(recs, i - 1) + 4 + recs[i - 1].length

\* index of the record that starts at absolute position p, 0 when fewer
\* than 4 bytes are left at p
RecIndexAt(recs, base, p) ==
    LET hits == {i \in 1 .. Len(recs) : base + Off(recs, i) = p}
    IN  IF hits = {} THEN 0 ELSE CHOOSE i \in hits : TRUE

\* the world an operation of Book runs in: the Book, the state of the
\* mappings it opened, the Sheet objects constructed so far, and the
\* exception the operation raised ("" when it returned)
World(b, m, n, e) == [bk |-> b, maps |-> m, made |-> n, exc |-> e]
Raise(w, e) == [w EXCEPT !.exc = e]

XLRDErrors ==
    { "XLRDError: File size is 0 bytes",
      "XLRDError: Can't find workbook in OLE2 compound document",
      "XLRDError: Can't determine file's BIFF version",
      "XLRDError: BIFF version is not supported",
      "XLRDError: Unsupported format, or corrupt file",
      "XLRDError: Missing CONTINUE after EXTERNSHEET record",
      "XLRDError: Workbook is encrypted",
      "XLRDError: Can't load sheets after releasing resources.",
      "XLRDError: No sheet named" }

\* a text encoding: a codec name, or a name made of a prefix and a codepage
\* number ('cp' + str(n), 'unknown_codepage_' + str(n)); NoEncoding is None
Enc(name, n) == [name |-> name, n |-> n]
NoEncoding == Enc("", 0)

\* Book.__init__ and the class attributes; codepage -1 is None
Book__init__ ==
    [ _sheet_list |-> <<>>, _sheet_names |-> <<>>, nsheets |-> 0,
      _sh_abs_posn |-> <<>>, _sharedstrings |-> "empty",
      _rich_text_runlist_map |-> "empty", _sheethdr_count |-> 0,
      _all_sheets_count |-> 0, _all_sheets_map |-> <<>>,
      _sheetsoffset |-> <<>>, _resources_released |-> 0,
      mem |-> BytesBuf(<<>>), filestr |-> BytesBuf(<<>>),
      base |-> 0, stream_len |-> 0, _position |-> 0, biff_version |-> 0,
      on_demand |-> FALSE, verbosity |-> 0, epilogues |-> <<>>,
      encoding_override |-> NoEncoding, encoding |-> NoEncoding,
      codepage |-> -1, countries |-> <<0, 0>>,
      raw_user_name |-> FALSE, user_name |-> "" ]

NoMaps == [file |-> "none", scattered |-> "none"]

\* hasattr(buf, "close"): only the mmap.mmap object has it
IsMmap(f) == f.has_path /\ f.use_mmap
HasClose(buf, f) == buf.kind = "mem" /\ IsMmap(f)

\* a counter of the calls in place of the flag
ReleasedFlag_Counts(old) == old + 1
\* _resources_released after a call of release_resources
ReleasedFlag(old) == 1

\* self.mem = None when mem is a ScatteredMemory: the object has no close,
\* the Book lets go of it and of the mapping it opened for itself, which
\* stays mapped until the interpreter finalises the object
Dropped(buf, mapping) ==
    IF buf.kind = "scattered" /\ mapping = "open" THEN "unreferenced"
    ELSE mapping

\* Book.release_resources
release_resources(w, f) ==
    LET b == w.bk
        closes == HasClose(b.mem, f) \/ HasClose(b.filestr, f)
    IN  [w EXCEPT
           !.bk = [b EXCEPT !._resources_released = ReleasedFlag(@),
                            !.mem = NoneBuf,
                            !.filestr = NoneBuf,
                            !._sharedstrings = "None",
                            !._rich_text_runlist_map = "None"],
           !.maps = [@ EXCEPT !.file = IF closes THEN "closed" ELSE @,
                              !.scattered = Dropped(b.mem, @)]]

\* what a read of bk.mem raises before any byte is decoded
ReadFault(w, f) ==
    IF w.bk.mem.kind = "None" THEN "TypeError"
    ELSE IF w.bk.mem.kind = "mem" /\ w.maps.file = "closed" THEN "ValueError"
    ELSE IF w.bk.mem.kind = "scattered" /\ ~f.has_path THEN "TypeError"
    ELSE ""

\* a read through ScatteredMemory maps the file again
Touch(w) ==
    IF w.bk.mem.kind = "scattered"
    THEN [w EXCEPT !.maps = [@ EXCEPT !.scattered = "open"]]
    ELSE w

\* the position at which the bytes of the buffer end: the last record of
\* the buffer may lack f.cut bytes of the payload its header declares
EndPos(w, f) == w.bk.base + Off(f.recs, Len(f.recs) + 1) - f.cut

\* the body of get_record_parts and get_record_parts_conditional: i is the
\* record at the cursor, fault what the read raises, reqd the required
\* code ("" for any); the result is the world and the record consumed
\* (i = 0: none)
GetParts(w, f, i, fault, reqd) ==
    IF fault # "" THEN [w |-> Raise(w, fault), i |-> 0]
    ELSE IF i = 0 THEN [w |-> Raise(Touch(w), "struct.error"), i |-> 0]
    ELSE IF reqd # "" /\ f.recs[i].code # reqd THEN [w |-> Touch(w), i |-> 0]
    ELSE [w |-> [Touch(w) EXCEPT !.bk._position = @ + 4 + f.recs[i].length],
          i |-> i]

\* Book.get_record_parts: the record at the cursor, the cursor moved past it
get_record_parts(w, f) ==
    GetParts(w, f, RecIndexAt(f.recs, w.bk.base, w.bk._position),
             ReadFault(w, f), "")

\* the record consumed whatever its code
get_record_parts_conditional_Always(w, f, reqd_record) ==
    get_record_parts(w, f)

\* Book.get_record_parts_conditional: as get_record_parts when the record
\* has the required code, else nothing is consumed
get_record_parts_conditional(w, f, reqd_record) ==
    GetParts(w, f, RecIndexAt(f.recs, w.bk.base, w.bk._position),
             ReadFault(w, f), reqd_record)

SUPPORTED_VERSIONS == {80, 70, 50, 45, 40, 30, 21, 20}

\* the BOF record not looked at: every stream taken for BIFF 8
BofVersion_AllNewest(r) == 80

\* the BIFF version getbof derives from a BOF record
BofVersion(r) ==
    LET version ==
          IF r.n1 = 8
          THEN IF r.n2 = 1536 THEN 80
               ELSE IF r.n2 = 1280 THEN (IF r.n3 = 1 THEN 50 ELSE 70)
               ELSE IF r.n2 \in {0, 7, 512} THEN 21
               ELSE IF r.n2 = 768 THEN 30
               ELSE IF r.n2 = 1024 THEN 40
               ELSE 0
          ELSE IF r.n1 = 4 THEN 40
          ELSE IF r.n1 = 2 THEN 30
          ELSE IF r.n1 = 0 THEN 21
          ELSE 0
    IN  IF version = 40 /\ r.name = "globals4w" THEN 45 ELSE version

\* getbof on the BOF record r, w the world with the cursor past it
GetBofRec(w, r, rqd_stream, version) ==
    IF (rqd_stream = "globals"
          /\ (r.name = "globals" \/ (version = 45 /\ r.name = "globals4w")))
         \/ r.name = rqd_stream
    THEN [w |-> w, version |-> version]
    ELSE IF version < 50 /\ r.name = "worksheet"
    THEN [w |-> w, version |-> version]
    ELSE [w |-> Raise(w, "XLRDError: Unsupported format, or corrupt file"),
          version |-> 0]

\* getbof with the cursor at p: i is the record there, fault what the
\* read raises, w the world after the read
GetBofAt(w, f, rqd_stream, p, i, fault) ==
    IF fault # "" THEN [w |-> Raise(w, fault), version |-> 0]
    ELSE IF i = 0 /\ p >= EndPos(w, f)
    THEN [w |-> Raise(w, "XLRDError: Unsupported format, or corrupt file"),
          version |-> 0]
    ELSE IF i = 0 \/ f.recs[i].code # "BOF"
    THEN [w |-> Raise([w EXCEPT !.bk._position = p + 2],
                      "XLRDError: Unsupported format, or corrupt file"),
          version |-> 0]
    ELSE IF ~(4 <= f.recs[i].length /\ f.recs[i].length <= 20)
    THEN [w |-> Raise([w EXCEPT !.bk._position = p + 4],
                      "XLRDError: Unsupported format, or corrupt file"),
          version |-> 0]
    ELSE IF i = Len(f.recs) /\ f.cut > 0
    THEN [w |-> Raise([w EXCEPT !.bk._position =
                                   p + 4 + f.recs[i].length - f.cut],
                      "XLRDError: Unsupported format, or corrupt file"),
          version |-> 0]
    ELSE GetBofRec([w EXCEPT !.bk._position = p + 4 + f.recs[i].length],
                   f.recs[i], rqd_stream, BofVersion(f.recs[i]))

\* Book.getbof: [w, version]
getbof(w, f, rqd_stream) ==
    GetBofAt(IF ReadFault(w, f) = "" THEN Touch(w) ELSE w, f, rqd_stream,
             w.bk._position,
             RecIndexAt(f.recs, w.bk.base, w.bk._position), ReadFault(w, f))

(***************************************************************************)
(* Sheets.  xlrd/sheet.py is not part of the sources at hand: a Sheet is   *)
(* the record of its constructor's arguments and its identity, it is a     *)
(* true value, and Sheet.read consumes records up to and including the     *)
(* sheet's EOF record.                                                     *)
(***************************************************************************)
NoSheet == [name |-> "", number |-> -1, position |-> -1, id |-> 0]

Sheet(position, name, number, id) ==
    [name |-> name, number |-> number, position |-> position, id |-> id]

RECURSIVE SheetRead(_, _)
SheetReadNext(g, f) ==
    IF g.w.exc # "" THEN g.w
    ELSE IF f.recs[g.i].code = "EOF" THEN g.w
    ELSE SheetRead(g.w, f)

SheetRead(w, f) == SheetReadNext(get_record_parts(w, f), f)

\* get_sheet once the sheet was read: w the world after Sheet.read
GetSheetStore(w, sh_number, sh) ==
    IF w.exc # "" THEN [w |-> w, ret |-> NoSheet]
    ELSE IF sh_number >= Len(w.bk._sheet_list)
    THEN [w |-> Raise(w, "IndexError"), ret |-> NoSheet]
    ELSE [w |-> [w EXCEPT !.bk._sheet_list[sh_number + 1] = sh], ret |-> sh]

\* get_sheet once getbof returned g: the Sheet is constructed and read
GetSheetRead(g, f, sh_number, id) ==
    IF g.w.exc # "" THEN [w |-> g.w, ret |-> NoSheet]
    ELSE IF sh_number >= Len(g.w.bk._sheet_names)
    THEN [w |-> Raise(g.w, "IndexError"), ret |-> NoSheet]
    ELSE GetSheetStore(SheetRead([g.w EXCEPT !.made = id], f), sh_number,
                       Sheet(g.w.bk._position,
                             g.w.bk._sheet_names[sh_number + 1], sh_number, id))

\* the test left out
ReleasedCheck_Off(flag) == FALSE
\* the test get_sheet makes of the released flag
ReleasedCheck(flag) == flag # 0

\* Book.get_sheet: [w, ret]
get_sheet(w, f, sh_number, update_pos) ==
    IF ReleasedCheck(w.bk._resources_released)
    THEN [w |-> Raise(w, "XLRDError: Can't load sheets after releasing resources."),
          ret |-> NoSheet]
    ELSE IF update_pos /\ sh_number >= Len(w.bk._sh_abs_posn)
    THEN [w |-> Raise(w, "IndexError"), ret |-> NoSheet]
    ELSE GetSheetRead(
            getbof(IF update_pos
                   THEN [w EXCEPT !.bk._position =
                                     w.bk._sh_abs_posn[sh_number + 1]]
                   ELSE w, f, "worksheet"),
            f, sh_number, w.made + 1)

\* Book.get_sheets, from sheet number sheetno on
RECURSIVE get_sheets(_, _, _)
GetSheetsNext(g, f, sheetno) ==
    IF g.w.exc # "" THEN g.w ELSE get_sheets(g.w, f, sheetno + 1)

get_sheets(w, f, sheetno) ==
    IF sheetno >= Len(w.bk._sheet_names) THEN w
    ELSE GetSheetsNext(get_sheet(w, f, sheetno, TRUE), f, sheetno)

\* Book.fake_globals_get_sheet
fake_globals_get_sheet(w, f) ==
    get_sheets([w EXCEPT !.bk._sheet_names = <<"Sheet 1">>,
                         !.bk._sh_abs_posn = <<0>>,
                         !.bk._sheet_list = Append(@, NoSheet)], f, 0)

(***************************************************************************)
(* The handlers of the global records                                      *)
(***************************************************************************)
\* Book.handle_boundsheet
handle_boundsheet(w, r) ==
    LET b == w.bk
        first45 == Len(b._sh_abs_posn) = 0
        abs_posn == IF b.biff_version = 45
                    THEN (IF first45 THEN b._sheetsoffset[1] + b.base ELSE -1)
                    ELSE r.n1 + b.base
        sheet_type == IF b.biff_version = 45 THEN 0 ELSE r.n2
        counted == [b EXCEPT !._all_sheets_count = @ + 1]
    IN  IF b.biff_version = 45 /\ first45 /\ b._sheetsoffset = <<>>
        THEN Raise(w, "AttributeError")
        ELSE IF b.biff_version # 45 /\ r.length < 6
        THEN Raise(w, "struct.error")
        ELSE IF sheet_type # 0
        THEN [w EXCEPT !.bk = [counted EXCEPT
                 !._all_sheets_map = Append(@, -1)]]
        ELSE [w EXCEPT !.bk = [counted EXCEPT
                 !._all_sheets_map = Append(@, Len(b._sheet_names)),
                 !._sheet_names = Append(@, r.name),
                 !._sh_abs_posn = Append(@, abs_posn)]]

\* the continuation loop of handle_externsheet: have bytes so far
RECURSIVE ExternsheetFill(_, _, _, _)
ExternsheetNext(g, f, have, bytes_reqd) ==
    IF g.w.exc # "" THEN g.w
    ELSE IF f.recs[g.i].code # "CONTINUE"
    THEN Raise(g.w, "XLRDError: Missing CONTINUE after EXTERNSHEET record")
    ELSE ExternsheetFill(g.w, f, have + f.recs[g.i].length, bytes_reqd)

ExternsheetFill(w, f, have, bytes_reqd) ==
    IF have >= bytes_reqd THEN w
    ELSE ExternsheetNext(get_record_parts(w, f), f, have, bytes_reqd)

\* Book.handle_externsheet
handle_externsheet(w, f, r) ==
    IF w.bk.biff_version >= 80
    THEN IF r.length < 2 THEN Raise(w, "struct.error")
         ELSE ExternsheetFill(w, f, r.length, r.n1 * 6 + 2)
    ELSE IF r.length < 2 THEN Raise(w, "struct.error") ELSE w

\* the unpacking of the payload that handle_filepass logs at verbosity 2
FilepassDumpFails(b, r) ==
    /\ b.verbosity >= 2
    /\ b.biff_version >= 80
    /\ \/ r.length < 2
       \/ r.n1 = 0 /\ r.length # 6
       \/ r.n1 = 1 /\ r.length < 6

\* the record skipped like any record the loader does not know
handle_filepass_Skipped(w, r) == w

\* Book.handle_filepass
handle_filepass(w, r) ==
    IF FilepassDumpFails(w.bk, r) THEN Raise(w, "struct.error")
    ELSE Raise(w, "XLRDError: Workbook is encrypted")

\* Book.handle_sheetsoffset
handle_sheetsoffset(w, r) == [w EXCEPT !.bk._sheetsoffset = <<r.n1>>]

\* handle_sheethdr once get_sheet returned g: the cursor is put past the
\* substream
SheethdrSkip(g, posn) ==
    IF g.w.exc # "" THEN g.w ELSE [g.w EXCEPT !.bk._position = posn]

\* Book.handle_sheethdr
handle_sheethdr(w, f, r) ==
    IF w.bk._sheethdr_count >= Len(w.bk._sheet_names)
    THEN Raise(w, "IndexError")
    ELSE IF r.name # w.bk._sheet_names[w.bk._sheethdr_count + 1]
    THEN Raise(w, "AssertionError")
    ELSE SheethdrSkip(
            get_sheet([w EXCEPT !.bk._sheethdr_count = @ + 1,
                                !.bk._sheet_list = Append(@, NoSheet)],
                      f, w.bk._sheethdr_count, FALSE),
            w.bk._position + r.n1)

\* the loop of handle_sst over the CONTINUE records that follow
RECURSIVE SstContinues(_, _)
SstNext(g, f) ==
    IF g.w.exc # "" \/ g.i = 0 THEN g.w ELSE SstContinues(g.w, f)

SstContinues(w, f) ==
    SstNext(get_record_parts_conditional(w, f, "CONTINUE"), f)

\* handle_sst once the records are gathered: unpack_SST_table
SstUnpack(w) ==
    IF w.exc # "" THEN w ELSE [w EXCEPT !.bk._sharedstrings = "loaded"]

\* Book.handle_sst
handle_sst(w, f) == SstUnpack(SstContinues(w, f))

(***************************************************************************)
(* Text encoding, locale and user name of the workbook globals.  In the    *)
(* records of the model n1 is the codepage of a CODEPAGE record and        *)
(* <<n1, n2>> the pair of a COUNTRY record.                                *)
(***************************************************************************)
\* biffh.encoding_from_codepage; NoEncoding for a codepage not in it
encoding_from_codepage(codepage) ==
    CASE codepage = 1200 -> Enc("utf_16_le", 0)
      [] codepage \in {10000, 32768} -> Enc("mac_roman", 0)
      [] codepage = 10006 -> Enc("mac_greek", 0)
      [] codepage = 10007 -> Enc("mac_cyrillic", 0)
      [] codepage = 10029 -> Enc("mac_latin2", 0)
      [] codepage = 10079 -> Enc("mac_iceland", 0)
      [] codepage = 10081 -> Enc("mac_turkish", 0)
      [] codepage = 32769 -> Enc("cp1252", 0)
      [] OTHER -> NoEncoding

\* the codepages for which the codec registry has a codec named cp<N>
PythonCodepages ==
    {437, 500, 720, 737, 775, 850, 852, 855, 856, 857, 858, 860, 861, 862,
     863, 864, 865, 866, 869, 874, 875, 932, 949, 950, 1006, 1026, 1125,
     1140, 1250, 1251, 1252, 1253, 1254, 1255, 1256, 1257, 1258}

\* unicode(b'trial', encoding): "" when the five bytes decode, else the
\* exception
TrialDecode(encoding) ==
    IF encoding = NoEncoding THEN "TypeError"
    ELSE IF encoding.name = "cp"
    THEN IF encoding.n \in PythonCodepages THEN "" ELSE "LookupError"
    ELSE IF encoding.name \in {"utf_16_le", "utf_16_be"} THEN "UnicodeDecodeError"
    ELSE IF encoding.name \in {"iso-8859-1", "ascii", "utf_8", "cp1252",
                               "mac_roman", "mac_greek", "mac_cyrillic",
                               "mac_latin2", "mac_iceland", "mac_turkish"}
    THEN ""
    ELSE "LookupError"

\* the encoding derive_encoding settles on, and the codepage it leaves
ResolveEncoding(b) ==
    IF b.encoding_override # NoEncoding
    THEN [b EXCEPT !.encoding = b.encoding_override]
    ELSE IF b.codepage = -1
    THEN IF b.biff_version < 80
         THEN [b EXCEPT !.encoding = Enc("iso-8859-1", 0)]
         ELSE [b EXCEPT !.codepage = 1200]
    ELSE IF encoding_from_codepage(b.codepage) # NoEncoding
    THEN [b EXCEPT !.encoding = encoding_from_codepage(b.codepage)]
    ELSE IF 300 <= b.codepage /\ b.codepage <= 1999
    THEN [b EXCEPT !.encoding = Enc("cp", b.codepage)]
    ELSE IF b.biff_version >= 80
    THEN [b EXCEPT !.codepage = 1200, !.encoding = Enc("utf_16_le", 0)]
    ELSE [b EXCEPT !.encoding = Enc("unknown_codepage", b.codepage)]

\* `if self.codepage != 1200`: no trial on the codepage of UTF-16
TrialSkipped(codepage) == codepage = 1200

\* the user name kept raw by handle_writeaccess is decoded
DecodeUserName(w) ==
    IF ~w.bk.raw_user_name THEN w
    ELSE [w EXCEPT !.bk.user_name = "text", !.bk.raw_user_name = FALSE]

DeriveTrial(w) ==
    IF ~TrialSkipped(w.bk.codepage) /\ TrialDecode(w.bk.encoding) # ""
    THEN Raise(w, TrialDecode(w.bk.encoding))
    ELSE DecodeUserName(w)

\* Book.derive_encoding
derive_encoding(w) == DeriveTrial([w EXCEPT !.bk = ResolveEncoding(w.bk)])

\* Book.handle_codepage
handle_codepage(w, r) == derive_encoding([w EXCEPT !.bk.codepage = r.n1])

\* Book.handle_country
handle_country(w, r) ==
    IF w.bk.countries # <<0, 0>> /\ w.bk.countries # <<r.n1, r.n2>>
    THEN Raise(w, "AssertionError")
    ELSE [w EXCEPT !.bk.countries = <<r.n1, r.n2>>]

\* Book.handle_writeaccess: before BIFF 8 the name waits for the encoding
handle_writeaccess(w, r) ==
    IF w.bk.biff_version < 80 /\ w.bk.encoding = NoEncoding
    THEN [w EXCEPT !.bk.raw_user_name = TRUE, !.bk.user_name = "raw"]
    ELSE [w EXCEPT !.bk.user_name = "text"]

\* the dispatch of parse_globals on record r
\* the three epilogues: bk.epilogues lists the ones that have run, in the
\* order in which they ran
xf_epilogue(w) == [w EXCEPT !.bk.epilogues = Append(@, "xf")]
names_epilogue(w) == [w EXCEPT !.bk.epilogues = Append(@, "names")]
palette_epilogue(w) == [w EXCEPT !.bk.epilogues = Append(@, "palette")]

\* `if not self.encoding: self.derive_encoding()` after the epilogues
EncodingAtEOF(w) ==
    IF w.bk.encoding = NoEncoding THEN derive_encoding(w) ELSE w

\* the named ranges resolved before the formats are final
GlobalEOF_NamesFirst(w) ==
    EncodingAtEOF(palette_epilogue(xf_epilogue(names_epilogue(w))))
\* the XL_EOF branch of parse_globals
GlobalEOF(w) ==
    EncodingAtEOF(palette_epilogue(names_epilogue(xf_epilogue(w))))

Dispatch(w, f, r) ==
    IF r.code = "SST" THEN handle_sst(w, f)
    ELSE IF r.code = "BOUNDSHEET" THEN handle_boundsheet(w, r)
    ELSE IF r.code = "EXTERNSHEET" THEN handle_externsheet(w, f, r)
    ELSE IF r.code = "FILEPASS" THEN handle_filepass(w, r)
    ELSE IF r.code = "SHEETSOFFSET" THEN handle_sheetsoffset(w, r)
    ELSE IF r.code = "SHEETHDR" THEN handle_sheethdr(w, f, r)
    ELSE IF r.code = "CODEPAGE" THEN handle_codepage(w, r)
    ELSE IF r.code = "COUNTRY" THEN handle_country(w, r)
    ELSE IF r.code = "WRITEACCESS" THEN handle_writeaccess(w, r)
    ELSE IF r.code = "EOF" THEN GlobalEOF(w)
    ELSE w

\* Book.parse_globals
RECURSIVE parse_globals(_, _)
ParseNext(w, f, eof) ==
    IF w.exc # "" \/ eof THEN w ELSE parse_globals(w, f)

ParseRecord(g, f) ==
    IF g.w.exc # "" THEN g.w
    ELSE ParseNext(Dispatch(g.w, f, f.recs[g.i]), f,
                   f.recs[g.i].code = "EOF")

parse_globals(w, f) == ParseRecord(get_record_parts(w, f), f)

(***************************************************************************)
(* Book.biff2_8_load.  f is the call: the file (reachable by path or       *)
(* passed as file_contents), the flags, and what the buffer decodes to.    *)
(***************************************************************************)
FileSize(f) ==
    IF f.container THEN file_len ELSE Off(f.recs, Len(f.recs) + 1) - f.cut

\* the aliases tried the other way round
AliasOrder_BookFirst == <<"Book", "Workbook">>
\* for qname in ['Workbook', 'Book']
AliasOrder == <<"Workbook", "Book">>

\* the trial of the aliases from the k-th on, on CompDoc c: what is left
\* in (mem, base, stream_len) and what is raised; assigned says whether
\* the three were assigned at all
RECURSIVE TryAliases(_, _)
TryRest(t, r) ==
    IF t.assigned THEN t
    ELSE [t EXCEPT !.mem = r.mem, !.base = r.base, !.len = r.len,
                   !.assigned = TRUE]

TryAlias(c, k, r) ==
    IF r.exc # ""
    THEN [exc |-> r.exc, mem |-> NoneBuf, base |-> 0, len |-> 0,
          assigned |-> FALSE]
    ELSE IF Truthy(r.mem)
    THEN [exc |-> "", mem |-> r.mem, base |-> r.base, len |-> r.len,
          assigned |-> TRUE]
    ELSE TryRest(TryAliases([c EXCEPT !.seen = r.seen], k + 1), r)

TryAliases(c, k) ==
    IF k > Len(AliasOrder)
    THEN [exc |-> "XLRDError: Can't find workbook in OLE2 compound document",
          mem |-> NoneBuf, base |-> 0, len |-> 0, assigned |-> FALSE]
    ELSE TryAlias(c, k, locate_named_stream(c, AliasOrder[k]))

\* biff2_8_load once the stream was looked up: b the Book with the file
\* read, t the outcome of the trial
LoadStream(b, m, made0, f, t) ==
    IF t.exc # ""
    THEN World(IF t.assigned
               THEN [b EXCEPT !.mem = t.mem, !.base = t.base,
                              !.stream_len = t.len]
               ELSE b, m, made0, t.exc)
    ELSE World([b EXCEPT !.mem = t.mem, !.base = t.base,
                         !.stream_len = t.len,
                         !.filestr = IF t.mem.kind # "mem"
                                     THEN BytesBuf(<<>>) ELSE @,
                         !._position = t.base],
               [m EXCEPT !.file = IF t.mem.kind # "mem" /\ IsMmap(f)
                                  THEN "closed" ELSE @],
               made0, "")

\* biff2_8_load on a file with the container's signature
LoadContainer(b, m, made0, f, c) ==
    IF c.exc # "" THEN World(b, m, made0, c.exc)
    ELSE LoadStream(b, m, made0, f, TryAliases(c, 1))

\* biff2_8_load once the file was read: b the Book, m the mappings
LoadFile(b, m, made0, f) ==
    IF ~f.container
    THEN World([b EXCEPT !.mem = MemBuf, !._position = 0], m, made0, "")
    ELSE LoadContainer(b, m, made0, f,
                       CompDoc__init__(f.cdfile, f.ignore_wb_corruption))

\* biff2_8_load once the flags are stored in b
LoadOpen(b, w, f) ==
    IF f.has_path /\ f.io = "missing"
    THEN World(b, w.maps, w.made, "FileNotFoundError")
    ELSE IF f.has_path /\ f.io = "empty"
    THEN World(b, w.maps, w.made, "XLRDError: File size is 0 bytes")
    ELSE LoadFile([b EXCEPT !.filestr = MemBuf, !.stream_len = FileSize(f),
                            !.base = 0],
                  [w.maps EXCEPT !.file = IF IsMmap(f) THEN "open" ELSE @],
                  w.made, f)

biff2_8_load(w, f) ==
    LoadOpen([w.bk EXCEPT !.verbosity = f.verbosity,
                          !.encoding_override = f.encoding_override,
                          !.on_demand = f.on_demand], w, f)

(***************************************************************************)
(* The workbook streams of the model                                       *)
(***************************************************************************)
\* longest run of records between the globals BOF and EOF
MaxGlobals == 3
\* calls made on an opened Book
MaxOps == 3

SeqsUpTo(S, n) == UNION { [1 .. k -> S] : k \in 0 .. n }

RECURSIVE Flatten(_)
Flatten(ss) == IF ss = <<>> THEN <<>> ELSE Head(ss) \o Flatten(Tail(ss))

SheetName(j) ==
    IF j = 1 THEN "A" ELSE IF j = 2 THEN "B" ELSE IF j = 3 THEN "A" ELSE "C"

BOF(streamtype, v1, v2) == Rec("BOF", 8, streamtype, v1, v2, 0)
EOFRec == Rec("EOF", 0, "", 0, 0, 0)
OtherRec == Rec("OTHER", 2, "", 0, 0, 0)

\* a worksheet substream
SheetRecs(v1, v2) == << BOF("worksheet", v1, v2), OtherRec, EOFRec >>
SheetLen == Off(SheetRecs(8, 1536), 4)

\* the record a symbol of a globals run stands for: name and off are the
\* sheet name and the sheet offset of a worksheet declaration
GlobalRec(sym, name, off) ==
    IF sym = "BSW" THEN Rec("BOUNDSHEET", 8, name, off, 0, 0)
    ELSE IF sym = "BSB" THEN Rec("BOUNDSHEET", 8, name, 0, 0, 0)
    ELSE IF sym = "BSC" THEN Rec("BOUNDSHEET", 8, "Chart", 0, 2, 0)
    ELSE IF sym = "BS4" THEN Rec("BOUNDSHEET", 2, name, 0, 0, 0)
    ELSE IF sym = "SH" THEN Rec("SHEETHDR", 6, name, SheetLen, 0, 0)
    ELSE IF sym = "FP" THEN Rec("FILEPASS", 6, "", 0, 0, 0)
    ELSE IF sym = "FPX" THEN Rec("FILEPASS", 4, "", 0, 0, 0)
    ELSE IF sym = "ES" THEN Rec("EXTERNSHEET", 2, "", 1, 0, 0)
    ELSE IF sym = "CO" THEN Rec("CONTINUE", 6, "", 0, 0, 0)
    ELSE IF sym = "SST" THEN Rec("SST", 8, "", 0, 0, 0)
    ELSE OtherRec

CountIn(G, i, syms) == Cardinality({j \in 1 .. i : G[j] \in syms})

\* a BIFF 5-8 workbook stream: globals BOF, the run G, EOF, then one
\* substream per "BSW" declaration at the offset the declaration gives
Stream80(G, v2) ==
    LET glob(off) ==
          [i \in 1 .. Len(G) |->
              GlobalRec(G[i], SheetName(CountIn(G, i, {"BSW", "BSB"})),
                        off + (CountIn(G, i, {"BSW"}) - 1) * SheetLen)]
        head(off) == <<BOF("globals", 8, v2)>> \o glob(off) \o <<EOFRec>>
        globlen == Off(head(0), Len(G) + 3)
    IN  head(globlen)
          \o Flatten([k \in 1 .. CountIn(G, Len(G), {"BSW"}) |->
                         SheetRecs(8, v2)])

\* a BIFF 4W workbook stream: every "SH" is a SHEETHDR record followed by
\* the worksheet substream it announces
Stream45(G) ==
    << BOF("globals4w", 4, 0), Rec("SHEETSOFFSET", 4, "", 0, 0, 0) >>
      \o Flatten([i \in 1 .. Len(G) |->
            IF G[i] = "SH"
            THEN <<GlobalRec("SH", SheetName(CountIn(G, i, {"SH"})), 0)>>
                   \o SheetRecs(4, 0)
            ELSE <<GlobalRec(G[i], SheetName(CountIn(G, i, {"BS4"})), 0)>>])
      \o <<EOFRec>>

\* a BIFF 2-4 file: one worksheet substream and nothing else
StreamOld(v1) == SheetRecs(v1, 0)

Alpha80 == {"BSW", "BSC", "FP", "FPX", "ES", "CO", "SST", "OT"}
Alpha45 == {"BS4", "SH", "FP"}

\* a container with streams e1 and e2 in its two free sectors, which
\* sector 0 chains to next0 and sector 1 to next1
CDFile(next0, next1, e1, e2) ==
    [SAT |-> TableOf([i \in 1 .. NFree |->
                        IF i = 1 THEN next0 ELSE IF i = 2 THEN next1
                        ELSE FREESID]),
     dirlist |-> << RootEntry(EOCSID, 0), e1, e2 >>,
     min_size_std_stream |-> sec_size,
     SSAT_first_sec_sid |-> EOCSID,
     SSAT_tot_secs |-> 0,
     SSATent |-> <<>>]

NoCDFile == CDFile(EOCSID, EOCSID, Stream(1, "Other", EOCSID, 0),
                   Stream(2, "Other", EOCSID, 0))

Call(io, has_path, use_mmap, container, cdfile, recs, on_demand, verbosity) ==
    [io |-> io, has_path |-> has_path, use_mmap |-> use_mmap,
     container |-> container, cdfile |-> cdfile,
     ignore_wb_corruption |-> FALSE, recs |-> recs,
     on_demand |-> on_demand, verbosity |-> verbosity,
     cut |-> 0, inside |-> Len(recs), encoding_override |-> NoEncoding]

(***************************************************************************)
(* The Book API on an opened workbook: [w, ret]                            *)
(***************************************************************************)
\* the cache never consulted
CacheHit_Never(entry) == FALSE
\* the cache entry is a Sheet: the left operand of `or` in sheet_by_index
CacheHit(entry) == entry # NoSheet

\* Book.sheet_by_index
sheet_by_index(w, f, sheetx) ==
    IF sheetx >= Len(w.bk._sheet_list)
    THEN [w |-> Raise(w, "IndexError"), ret |-> NoSheet]
    ELSE IF CacheHit(w.bk._sheet_list[sheetx + 1])
    THEN [w |-> w, ret |-> w.bk._sheet_list[sheetx + 1]]
    ELSE get_sheet(w, f, sheetx, TRUE)

\* list.index: the first position (0-based) of the name, -1 when absent
IndexOf(names, name) ==
    IF \E i \in 1 .. Len(names) : names[i] = name
    THEN (CHOOSE i \in 1 .. Len(names) :
             /\ names[i] = name
             /\ \A j \in 1 .. (i - 1) : names[j] # name) - 1
    ELSE -1

\* Book.sheet_by_name
sheet_by_name(w, f, sheet_name) ==
    IF IndexOf(w.bk._sheet_names, sheet_name) < 0
    THEN [w |-> Raise(w, "XLRDError: No sheet named"), ret |-> NoSheet]
    ELSE sheet_by_index(w, f, IndexOf(w.bk._sheet_names, sheet_name))

\* Book.sheets, from sheet number sheetx on: [w, ret] with ret the list
RECURSIVE sheets(_, _, _)
SheetsNext(g, f, sheetx) ==
    IF g.w.exc # "" THEN [w |-> g.w, ret |-> <<>>]
    ELSE sheets(g.w, f, sheetx + 1)

sheets(w, f, sheetx) ==
    IF sheetx >= w.bk.nsheets THEN [w |-> w, ret |-> w.bk._sheet_list]
    ELSE IF sheetx >= Len(w.bk._sheet_list)
    THEN [w |-> Raise(w, "IndexError"), ret |-> <<>>]
    ELSE IF w.bk._sheet_list[sheetx + 1] # NoSheet THEN sheets(w, f, sheetx + 1)
    ELSE SheetsNext(get_sheet(w, f, sheetx, TRUE), f, sheetx)

\* Book.unload_sheet, by index
unload_sheet(w, sheetx) ==
    IF sheetx >= Len(w.bk._sheet_list) THEN Raise(w, "IndexError")
    ELSE [w EXCEPT !.bk._sheet_list[sheetx + 1] = NoSheet]

\* Book.sheet_names
sheet_names(b) == b._sheet_names

\* Book.sheet_loaded, by index
sheet_loaded(b, sheetx) == b._sheet_list[sheetx + 1] # NoSheet

(***************************************************************************)
(* open_workbook_xls, one step per call it makes, and the calls a caller   *)
(* makes on the Book it returns.                                           *)
(*   file   the arguments of the call                                      *)
(*   bk     the Book                                                       *)
(*   maps   the mappings opened for it                                     *)
(*   made   the Sheet objects constructed                                  *)
(*   pc     "start", "loaded", "bof", "globals", "except", then "opened"   *)
(*          (the Book was returned) or "raised"; "fresh" is a Book that    *)
(*          was constructed and never loaded                               *)
(*   err    the step that raised and what it raised                        *)
(*   raised the exception that reached the caller                          *)
(*   last   the last call made on the Book, nops their number              *)
(***************************************************************************)
vars == <<cd, cd_log, file, bk, maps, made, pc, err, raised, last, nops>>

bookvars == <<file, bk, maps, made, pc, err, raised, last, nops>>

NoErr == [at |-> "", exc |-> ""]
NoCall == [op |-> "", sheetx |-> -1, sheet_name |-> "", exc |-> "",
           ret |-> NoSheet, released |-> FALSE, cached |-> FALSE,
           reqd |-> "", rec |-> 0]

Here == World(bk, maps, made, "")

\* the try block entered only after the file is read
TryCovers_AfterLoad(step) == step # "start"
\* the try block of open_workbook_xls covers the step
TryCovers(step) == TRUE

\* the end of a step of open_workbook_xls that leaves world w
StepTo(w, next) ==
    /\ bk' = w.bk
    /\ maps' = w.maps
    /\ made' = w.made
    /\ IF w.exc = ""
       THEN pc' = next /\ UNCHANGED <<err, raised>>
       ELSE /\ err' = [at |-> pc, exc |-> w.exc]
            /\ IF TryCovers(pc)
               THEN pc' = "except" /\ UNCHANGED raised
               ELSE pc' = "raised" /\ raised' = w.exc
    /\ UNCHANGED <<cd, cd_log, file, last, nops>>

Biff2_8_load ==
    /\ pc = "start"
    /\ StepTo(biff2_8_load(Here, file), "loaded")

\* the two tests open_workbook_xls makes of the version getbof returned
VersionChecked(g) ==
    IF g.w.exc # "" THEN g.w
    ELSE IF g.version = 0
    THEN Raise(g.w, "XLRDError: Can't determine file's BIFF version")
    ELSE IF g.version \notin SUPPORTED_VERSIONS
    THEN Raise(g.w, "XLRDError: BIFF version is not supported")
    ELSE [g.w EXCEPT !.bk.biff_version = g.version]

GetBof ==
    /\ pc = "loaded"
    /\ StepTo(VersionChecked(getbof(Here, file, "globals")), "bof")

\* on_demand is switched off for BIFF 4W once the globals are parsed
After45(w) ==
    IF w.exc = "" /\ w.bk.biff_version = 45
    THEN [w EXCEPT !.bk.on_demand = FALSE] ELSE w

\* fake_globals_get_sheet or parse_globals, by version
Globals ==
    /\ pc = "bof"
    /\ StepTo(IF bk.biff_version <= 40
              THEN fake_globals_get_sheet(
                      [Here EXCEPT !.bk.on_demand = FALSE], file)
              ELSE After45(parse_globals(Here, file)),
              "globals")

\* nsheets and the release on the normal exit
Returned_bk(w, f) ==
    IF w.exc # "" THEN w
    ELSE IF ~w.bk.on_demand
    THEN release_resources([w EXCEPT !.bk.nsheets = Len(w.bk._sheet_list)], f)
    ELSE [w EXCEPT !.bk.nsheets = Len(w.bk._sheet_list)]

\* the sheets decoded whatever the mode
ListSheets_Always(w, f) == get_sheets(w, f, 0)

\* get_sheets() unless on_demand, for BIFF 5 and later
ListSheets(w, f) ==
    IF w.bk.on_demand THEN w ELSE get_sheets(w, f, 0)

Finish ==
    /\ pc = "globals"
    /\ StepTo(Returned_bk(
                 IF bk.biff_version >= 50
                 THEN ListSheets([Here EXCEPT !.bk._sheet_list =
                        [i \in 1 .. Len(bk._sheet_names) |-> NoSheet]], file)
                 ELSE Here, file),
              "opened")

\* the except clause: release_resources, then the exception is re-raised
Reraised(w) ==
    /\ bk' = w.bk
    /\ maps' = w.maps
    /\ made' = w.made
    /\ raised' = IF w.exc # "" THEN w.exc ELSE err.exc

ExceptRelease ==
    /\ pc = "except"
    /\ Reraised(release_resources(Here, file))
    /\ pc' = "raised"
    /\ UNCHANGED <<cd, cd_log, file, err, last, nops>>

\* the end of a call on the Book
CallEnds(op, sheetx, sheet_name, r) ==
    /\ nops < MaxOps
    /\ bk' = r.w.bk
    /\ maps' = r.w.maps
    /\ made' = r.w.made
    /\ last' = [op |-> op, sheetx |-> sheetx, sheet_name |-> sheet_name,
                exc |-> r.w.exc, ret |-> r.ret,
                released |-> bk._resources_released # 0,
                cached |-> r.ret # NoSheet /\ r.w.made = made,
                reqd |-> "", rec |-> 0]
    /\ nops' = nops + 1
    /\ UNCHANGED <<cd, cd_log, file, err, raised>>

SheetNumbers == 0 .. (Max(Len(bk._sheet_names), Len(bk._sheet_list)) - 1)

SheetByIndex(sheetx) ==
    /\ pc = "opened"
    /\ CallEnds("sheet_by_index", sheetx, "", sheet_by_index(Here, file, sheetx))
    /\ UNCHANGED pc

SheetByName(sheet_name) ==
    /\ pc = "opened"
    /\ CallEnds("sheet_by_name", -1, sheet_name,
                sheet_by_name(Here, file, sheet_name))
    /\ UNCHANGED pc

Sheets ==
    /\ pc = "opened"
    /\ CallEnds("sheets", -1, "",
                [w |-> sheets(Here, file, 0).w, ret |-> NoSheet])
    /\ UNCHANGED pc

GetSheet(sheetx) ==
    /\ pc = "opened"
    /\ CallEnds("get_sheet", sheetx, "", get_sheet(Here, file, sheetx, TRUE))
    /\ UNCHANGED pc

UnloadSheet(sheetx) ==
    /\ pc = "opened"
    /\ CallEnds("unload_sheet", sheetx, "",
                [w |-> unload_sheet(Here, sheetx), ret |-> NoSheet])
    /\ UNCHANGED pc

\* release_resources, called by the caller or by __exit__
ReleaseResources ==
    /\ pc \in {"start", "fresh", "opened"}
    /\ CallEnds("release_resources", -1, "",
                [w |-> release_resources(Here, file), ret |-> NoSheet])
    /\ pc' = IF pc = "start" THEN "fresh" ELSE pc

\* the interpreter finalises a ScatteredMemory nothing refers to: only then
\* is its mapping unmapped, at a time the program does not choose
Finalise ==
    /\ maps.scattered = "unreferenced"
    /\ maps' = [maps EXCEPT !.scattered = "closed"]
    /\ UNCHANGED <<cd, cd_log, file, bk, made, pc, err, raised, last, nops>>

(***************************************************************************)
(* The calls of the model                                                  *)
(***************************************************************************)
\* how the file reaches the loader: by path through a mapping, by path
\* through read(), or as file_contents
Bare(recs, on_demand, verbosity) ==
    Call("ok", TRUE, TRUE, FALSE, NoCDFile, recs, on_demand, verbosity)

\* the workbook stream contiguous in the container, fragmented and joined
\* into a buffer of its own, fragmented and left scattered, absent, and
\* with a chain that runs into the directory's sector
ContigCD == CDFile(1, EOCSID, Stream(1, "Workbook", 0, 2 * sec_size - 1),
                   Stream(2, "Other", EOCSID, 0))
FragCD == CDFile(EOCSID, 0, Stream(1, "Workbook", 1, 2 * sec_size - 1),
                 Stream(2, "Other", EOCSID, 0))
ScatCD == CDFile(EOCSID, 0, Stream(1, "Workbook", 1, 2 * sec_size),
                 Stream(2, "Other", EOCSID, 0))
BadCD == CDFile(DirSector, EOCSID, Stream(1, "Workbook", 0, 2 * sec_size),
                Stream(2, "Other", EOCSID, 0))

Wrappers(recs, on_demand) ==
    { Bare(recs, on_demand, 0),
      Call("ok", TRUE, FALSE, FALSE, NoCDFile, recs, on_demand, 0),
      Call("ok", FALSE, TRUE, FALSE, NoCDFile, recs, on_demand, 0),
      Call("ok", TRUE, TRUE, TRUE, ContigCD, recs, on_demand, 0),
      Call("ok", TRUE, TRUE, TRUE, FragCD, recs, on_demand, 0),
      Call("ok", TRUE, FALSE, TRUE, FragCD, recs, on_demand, 0),
      Call("ok", TRUE, TRUE, TRUE, ScatCD, recs, on_demand, 0),
      Call("ok", FALSE, TRUE, TRUE, ScatCD, recs, on_demand, 0) }

Failing(recs, on_demand) ==
    { Call("missing", TRUE, TRUE, FALSE, NoCDFile, recs, on_demand, 0),
      Call("empty", TRUE, TRUE, FALSE, NoCDFile, recs, on_demand, 0),
      Call("ok", TRUE, TRUE, TRUE, NoCDFile, recs, on_demand, 0),
      Call("ok", TRUE, TRUE, TRUE, BadCD, recs, on_demand, 0) }

\* every run of globals records up to MaxGlobals long, in BIFF 8, BIFF 7
\* and BIFF 4W, read from a bare file at both verbosities
BigStreams ==
    { Stream80(G, v2) : G \in SeqsUpTo(Alpha80, MaxGlobals), v2 \in {1536, 1280} }
      \cup { Stream45(G) : G \in SeqsUpTo(Alpha45, MaxGlobals) }

BigCalls ==
    { Bare(recs, od, vb) : recs \in BigStreams, od \in BOOLEAN, vb \in {0, 2} }

\* workbooks of every kind, a declaration whose offset is not that of a
\* worksheet BOF, a version that cannot be determined, and a first record
\* that is no BOF, under every wrapper
SmallStreams ==
    { Stream80(<<"BSW", "BSW">>, 1536),
      Stream80(<<"SST", "BSW", "BSB">>, 1536),
      Stream80(<<"BSW", "BSC", "BSW">>, 1280),
      Stream45(<<"BS4", "SH", "BS4", "SH">>),
      StreamOld(4), StreamOld(2), StreamOld(0),
      <<BOF("globals", 8, 2457), EOFRec>>,
      <<BOF("globals", 6, 0), EOFRec>>,
      <<OtherRec, EOFRec>> }

SmallCalls ==
    UNION { Wrappers(recs, od) \cup Failing(recs, od) :
              recs \in SmallStreams, od \in BOOLEAN }

\* opened workbooks for the calls a caller makes
UseStreams ==
    { Stream80(<<"BSW", "BSW">>, 1536),
      Stream80(<<"SST", "BSW", "BSB">>, 1536),
      Stream45(<<"BS4", "SH">>),
      StreamOld(4) }

UseCalls ==
    UNION { Wrappers(recs, od) : recs \in UseStreams, od \in BOOLEAN }

\* containers for format detection: two directory entries over two
\* sectors, under every naming
Shapes ==
    { <<0, sec_size>>, <<1, sec_size>>, <<0, 2 * sec_size - 1>>,
      <<1, 2 * sec_size - 1>>, <<EOCSID, 0>> }

EntryNames == {"Workbook", "Book", "Other"}

LoadCalls ==
    { [Call("ok", TRUE, TRUE, TRUE,
            CDFile(t[1], t[2], Stream(1, n1, s1[1], s1[2]),
                   Stream(2, n2, s2[1], s2[2])),
            <<>>, FALSE, 0) EXCEPT !.ignore_wb_corruption = ig] :
        t \in {<<1, EOCSID>>, <<EOCSID, 0>>, <<EOCSID, EOCSID>>},
        n1 \in EntryNames, n2 \in EntryNames,
        s1 \in Shapes, s2 \in Shapes, ig \in BOOLEAN }
      \cup { Bare(recs, FALSE, 0) : recs \in SmallStreams }

(***************************************************************************)
(* Specifications                                                          *)
(***************************************************************************)
NoCD == CompDoc__init__(NoCDFile, FALSE)

InitBook(calls) ==
    /\ cd = NoCD
    /\ cd_log = <<>>
    /\ file \in calls
    /\ bk = Book__init__
    /\ maps = NoMaps
    /\ made = 0
    /\ pc = "start"
    /\ err = NoErr
    /\ raised = ""
    /\ last = NoCall
    /\ nops = 0

\* a stream that opens with a BOF record of every accepted opcode
\* (version1 0, 2, 4, 8), under version words that are and are not known,
\* both outcomes of the build/year test and every stream kind
BofStreams ==
    { << Rec("BOF", 8, st, v1, v2, n3), OtherRec, EOFRec >> :
        st \in {"globals", "globals4w", "worksheet", "chart"},
        v1 \in {0, 2, 4, 8},
        v2 \in {0, 768, 1024, 1280, 1536, 2457},
        n3 \in {0, 1} }

BofCalls == { Bare(recs, FALSE, 0) : recs \in BofStreams }

\* open_workbook_xls
Init == InitBook(BigCalls \cup SmallCalls \cup BofCalls)

Next ==
    \/ Biff2_8_load
    \/ GetBof
    \/ Globals
    \/ Finish
    \/ ExceptRelease

Spec == Init /\ [][Next]_vars

\* open_workbook_xls and the calls made on the Book
InitUse == InitBook(UseCalls)

NextUse ==
    \/ Next
    \/ \E sheetx \in SheetNumbers : SheetByIndex(sheetx)
    \/ \E sheet_name \in {"A", "B", "Sheet 1", "Z"} : SheetByName(sheet_name)
    \/ Sheets
    \/ \E sheetx \in SheetNumbers : GetSheet(sheetx)
    \/ \E sheetx \in SheetNumbers : UnloadSheet(sheetx)
    \/ ReleaseResources
    \/ Finalise

SpecUse == InitUse /\ [][NextUse]_vars

\* Book.biff2_8_load
InitLoad == InitBook(LoadCalls)

NextLoad == Biff2_8_load

SpecLoad == InitLoad /\ [][NextLoad]_vars

(***************************************************************************)
(* The record cursor of a loaded Book: get_record_parts,                   *)
(* get_record_parts_conditional and getbof called one after another, as    *)
(* parse_globals, the handlers and get_sheet call them, until one raises.  *)
(***************************************************************************)
\* reads made of one loaded Book
MaxReads == 4

\* the end of a call of the cursor that leaves world w; i is the record
\* returned (0: none)
ReadEnds(op, reqd, w, i) ==
    /\ last.exc = ""
    /\ nops < MaxReads
    /\ bk' = w.bk
    /\ maps' = w.maps
    /\ made' = w.made
    /\ last' = [NoCall EXCEPT !.op = op, !.exc = w.exc, !.reqd = reqd,
                              !.rec = i]
    /\ nops' = nops + 1
    /\ UNCHANGED <<cd, cd_log, file, pc, err, raised>>

ReadReturns(op, reqd, g) == ReadEnds(op, reqd, g.w, g.i)

GetRecordParts ==
    /\ pc = "loaded"
    /\ ReadReturns("get_record_parts", "", get_record_parts(Here, file))

GetRecordPartsConditional(reqd_record) ==
    /\ pc = "loaded"
    /\ ReadReturns("get_record_parts_conditional", reqd_record,
                   get_record_parts_conditional(Here, file, reqd_record))

GetBofCall(rqd_stream) ==
    /\ pc = "loaded"
    /\ ReadEnds("getbof", rqd_stream, getbof(Here, file, rqd_stream).w, 0)

\* streams that end with and without an EOF record, and one that is a BOF
\* record only
CursorStreams ==
    { << BOF("globals", 8, 1536), OtherRec, EOFRec >>,
      << BOF("globals", 8, 1536), GlobalRec("SST", "", 0),
         GlobalRec("CO", "", 0), EOFRec >>,
      << BOF("worksheet", 8, 1536), OtherRec >>,
      << BOF("globals", 8, 1536) >>,
      << OtherRec, GlobalRec("CO", "", 0) >> }

\* a bare file that ends one byte short of the payload its last record
\* declares
CutCalls ==
    { [Call("ok", hp, TRUE, FALSE, NoCDFile, recs, FALSE, 0)
         EXCEPT !.cut = 1] :
        recs \in {s \in CursorStreams : s[Len(s)].length > 0},
        hp \in BOOLEAN }

\* the stream contiguous in a container, read in place: the sectors of the
\* file that follow the stream decode as the records tail
ViewCalls ==
    { [Call("ok", TRUE, mm, TRUE, ContigCD, recs \o tail, FALSE, 0)
         EXCEPT !.inside = Len(recs)] :
        recs \in CursorStreams,
        tail \in { <<OtherRec>>, <<GlobalRec("CO", "", 0), EOFRec>> },
        mm \in BOOLEAN }

CursorCalls ==
    UNION { Wrappers(recs, FALSE) : recs \in CursorStreams }
      \cup CutCalls \cup ViewCalls

InitCursor == InitBook(CursorCalls)

NextCursor ==
    \/ Biff2_8_load
    \/ GetRecordParts
    \/ \E reqd_record \in {"CONTINUE", "EOF"} :
          GetRecordPartsConditional(reqd_record)
    \/ \E rqd_stream \in {"globals", "worksheet"} : GetBofCall(rqd_stream)

SpecCursor == InitCursor /\ [][NextCursor]_vars

(***************************************************************************)
(* Specification SpecCD: lookups on one CompDoc.  cd is the CompDoc        *)
(* object, cd_log the calls made on it with what each returned or raised.  *)
(***************************************************************************)
QNames == {"Workbook", "Book"}

InitCD ==
    /\ \E cdfile \in CDFiles, ignore \in BOOLEAN :
          /\ cd = CompDoc__init__(cdfile, ignore)
          /\ cd.exc = ""
    /\ cd_log = <<>>
    /\ file = Bare(<<>>, FALSE, 0)
    /\ bk = Book__init__
    /\ maps = NoMaps
    /\ made = 0
    /\ pc = "compdoc"
    /\ err = NoErr
    /\ raised = ""
    /\ last = NoCall
    /\ nops = 0

LocateNamedStream(qname) ==
    /\ Len(cd_log) < MaxCalls
    /\ LET r == locate_named_stream(cd, qname)
       IN  /\ cd' = [cd EXCEPT !.seen = r.seen]
           /\ cd_log' = Append(cd_log,
                  [qname |-> qname, exc |-> r.exc, mem |-> r.mem,
                   base |-> r.base, len |-> r.len, hit |-> r.hit,
                   seen0 |-> cd.seen])
    /\ UNCHANGED bookvars

NextCD == \E qname \in QNames : LocateNamedStream(qname)

SpecCD == InitCD /\ [][NextCD]_vars

(***************************************************************************)
(* Specification SpecDir: path lookups in the directory of one CompDoc.    *)
(* last holds the path of the latest _dir_search and what it gave:         *)
(* rec is the DID of the entry returned, -1 for None.                      *)
(***************************************************************************)
PathNames ==
    {"Book", "BOOK", "Stg", "Missing", "Stg/Workbook", "stg/workbook",
     "Stg/Missing", "Missing/Workbook", "Book/Workbook", "Stg/Workbook/Book"}

InitDir ==
    /\ \E cdfile \in DirFiles, ignore \in BOOLEAN :
          /\ cd = CompDoc__init__(cdfile, ignore)
          /\ cd.exc = ""
    /\ cd_log = <<>>
    /\ file = Bare(<<>>, FALSE, 0)
    /\ bk = Book__init__
    /\ maps = NoMaps
    /\ made = 0
    /\ pc = "compdoc"
    /\ err = NoErr
    /\ raised = ""
    /\ last = NoCall
    /\ nops = 0

DirSearch(qname) ==
    /\ nops < MaxCalls
    /\ LET found == _dir_search(cd.dirlist, split(qname))
       IN  last' = [NoCall EXCEPT !.op = "_dir_search", !.reqd = qname,
                                  !.exc = found.exc, !.rec = found.did]
    /\ nops' = nops + 1
    /\ UNCHANGED <<cd, cd_log, file, bk, maps, made, pc, err, raised>>

NextDir ==
    \/ \E qname \in PathNames : DirSearch(qname)
    \/ \E qname \in PathNames : LocateNamedStream(qname)

SpecDir == InitDir /\ [][NextDir]_vars

(***************************************************************************)
(* Specification SpecWalk: the construction of one CompDoc walk by walk,   *)
(* then lookups on it.  The file gives, besides the fields above, the      *)
(* header's master table (MSAT), the header's MSATX_first_sec_sid and      *)
(* MSATX_tot_secs, ext: the integers that each of the first sectors        *)
(* decodes to, and alt: the integers any other sector but SATSector        *)
(* decodes to.  cd_log holds one entry per walk: its name, the exception   *)
(* that left it, the sector id it stopped at, whether it stopped at a set  *)
(* seen cell, and the seen set before it.                                  *)
(***************************************************************************)
\* unpack(fmt, mem[offset:offset + sec_size])
SectorInts(cdfile, sid) ==
    IF sid = SATSector THEN cdfile.SAT
    ELSE IF sid < Len(cdfile.ext) THEN cdfile.ext[sid + 1]
    ELSE cdfile.alt

\* the link word taken for an entry of the table
ExtensionEntries_LinkKept(ints) == ints

\* MSAT.extend(unpack(fmt, ...)); sid = MSAT.pop(): what an extension
\* sector adds to the table
ExtensionEntries(ints) == SubSeq(ints, 1, Len(ints) - 1)

\* the loop over the master-table extension: st = [sid, MSAT, seen, fuel]
RECURSIVE MSATXWalk(_, _)
MSATXWalk(cdfile, st) ==
    LET sid == st.sid
        out(e) == [exc |-> e, MSAT |-> st.MSAT, seen |-> st.seen, s |-> sid,
                   hit |-> /\ sid >= 0 /\ sid < Len(st.seen)
                           /\ st.seen[sid + 1] # 0]
        ints == SectorInts(cdfile, sid)
    IN  IF sid \in {EOCSID, FREESID, MSATSID} THEN out("")
        ELSE IF sid >= Len(st.seen) THEN out("CompDocError")
        ELSE IF sid < 0 THEN out("CompDocError")
        ELSE IF st.seen[sid + 1] # 0 THEN out("CompDocError")
        ELSE IF st.fuel = 0 THEN out("NonTermination")
        ELSE MSATXWalk(cdfile,
                [sid |-> ints[Len(ints)],
                 MSAT |-> st.MSAT \o ExtensionEntries(ints),
                 seen |-> [st.seen EXCEPT ![sid + 1] = 1],
                 fuel |-> st.fuel - 1])

\* === build the MSAT ===
BuildMSAT(cdfile, seen) ==
    IF /\ cdfile.MSATX_tot_secs = 0
       /\ cdfile.MSATX_first_sec_sid \in {EOCSID, FREESID, 0}
    THEN [exc |-> "", MSAT |-> cdfile.MSAT, seen |-> seen, s |-> EOCSID,
          hit |-> FALSE]
    ELSE MSATXWalk(cdfile, [sid |-> cdfile.MSATX_first_sec_sid,
                            MSAT |-> cdfile.MSAT, seen |-> seen,
                            fuel |-> Len(seen) + 1])

\* === build the SAT ===: st = [SAT, seen, dump_again], msidx from 1
RECURSIVE BuildSAT(_, _, _, _)
BuildSAT(cdfile, MSAT, msidx, st) ==
    LET msid == MSAT[msidx]
        out(e, h) == [exc |-> e, SAT |-> st.SAT, seen |-> st.seen,
                      s |-> msid, hit |-> h]
    IN  IF msidx > Len(MSAT)
        THEN [exc |-> "",
              SAT |-> IF st.dump_again
                      THEN [x \in 1 .. Len(st.SAT) |->
                              IF x > Len(st.seen) THEN EVILSID ELSE st.SAT[x]]
                      ELSE st.SAT,
              seen |-> st.seen, s |-> EOCSID, hit |-> FALSE]
        ELSE IF msid \in {FREESID, EOCSID}
        THEN BuildSAT(cdfile, MSAT, msidx + 1, st)
        ELSE IF msid >= Len(st.seen)
        THEN BuildSAT(cdfile, MSAT, msidx + 1, [st EXCEPT !.dump_again = TRUE])
        ELSE IF msid < -2 THEN out("CompDocError", FALSE)
        ELSE IF st.seen[msid + 1] # 0 THEN out("CompDocError", TRUE)
        ELSE BuildSAT(cdfile, MSAT, msidx + 1,
                [SAT |-> st.SAT \o SectorInts(cdfile, msid),
                 seen |-> [st.seen EXCEPT ![msid + 1] = 2],
                 dump_again |-> st.dump_again])

\* === get the SSCS ===
GetSSCS(c) ==
    LET sscs_dir == c.dirlist[1]
    IN  IF sscs_dir.etype # 5
        THEN [exc |-> "AssertionError", data |-> <<>>, seen |-> c.seen,
              s |-> EOCSID, hit |-> FALSE]
        ELSE IF sscs_dir.first_SID < 0 \/ sscs_dir.tot_size = 0
        THEN [exc |-> "", data |-> <<>>, seen |-> c.seen, s |-> EOCSID,
              hit |-> FALSE]
        ELSE _get_stream(c.seen, MemBuf, HEADER_SIZE, c.SAT, sec_size,
                         sscs_dir.first_SID, sscs_dir.tot_size, 4)

\* === build the SSAT ===
BuildSSAT(c, cdfile) ==
    IF c.dirlist[1].tot_size > 0
    THEN SSATWalk(c.SAT, cdfile.SSATent,
            [sid |-> cdfile.SSAT_first_sec_sid,
             nsecs |-> cdfile.SSAT_tot_secs, SSAT |-> <<>>,
             seen |-> c.seen, hit |-> FALSE, exc |-> ""])
    ELSE [sid |-> EOCSID, nsecs |-> 0, SSAT |-> <<>>, seen |-> c.seen,
          hit |-> FALSE, exc |-> ""]

Walked(walk, e, s, hit) ==
    [walk |-> walk, exc |-> e, s |-> s, hit |-> hit, seen0 |-> cd.seen]

\* the end of a walk of the constructor that leaves the object as c
WalkEnds(walk, c, e, s, hit, next) ==
    /\ cd' = [c EXCEPT !.exc = e]
    /\ cd_log' = Append(cd_log, Walked(walk, e, s, hit))
    /\ pc' = IF e = "" THEN next ELSE "raised"
    /\ raised' = e
    /\ UNCHANGED <<file, bk, maps, made, err, last, nops>>

MSATEnds(r) ==
    WalkEnds("msatx", [cd EXCEPT !.seen = r.seen, !.MSAT = r.MSAT],
             r.exc, r.s, r.hit, "sat")
WalkMSATX ==
    /\ pc = "msatx"
    /\ MSATEnds(BuildMSAT(file.cdfile, cd.seen))

SATEnds(r) ==
    WalkEnds("sat", [cd EXCEPT !.seen = r.seen, !.SAT = r.SAT],
             r.exc, r.s, r.hit, "directory")
WalkSAT ==
    /\ pc = "sat"
    /\ SATEnds(BuildSAT(file.cdfile, cd.MSAT, 1,
                 [SAT |-> <<>>, seen |-> cd.seen, dump_again |-> FALSE]))

DirectoryEnds(r) ==
    WalkEnds("directory",
             [cd EXCEPT !.seen = r.seen, !.dirlist = file.cdfile.dirlist],
             r.exc, r.s, r.hit, "sscs")
WalkDirectory ==
    /\ pc = "directory"
    /\ DirectoryEnds(_get_stream(cd.seen, MemBuf, HEADER_SIZE, cd.SAT,
                                 sec_size, dir_first_sec_sid, -1, 3))

SSCSEnds(r) ==
    WalkEnds("sscs", [cd EXCEPT !.seen = r.seen, !.SSCS = BytesBuf(r.data)],
             r.exc, r.s, r.hit, "ssat")
WalkSSCS ==
    /\ pc = "sscs"
    /\ SSCSEnds(GetSSCS(cd))

SSATEnds(r) ==
    WalkEnds("ssat", [cd EXCEPT !.seen = r.seen, !.SSAT = r.SSAT],
             r.exc, r.sid, r.hit, "compdoc")
WalkSSAT ==
    /\ pc = "ssat"
    /\ SSATEnds(BuildSSAT(cd, file.cdfile))

NamedEnds(qname, r) ==
    /\ cd' = [cd EXCEPT !.seen = r.seen]
    /\ cd_log' = Append(cd_log, Walked(qname, r.exc, r.s, r.hit))
    /\ nops' = nops + 1
    /\ UNCHANGED <<file, bk, maps, made, pc, err, raised, last>>
WalkNamedStream(qname) ==
    /\ pc = "compdoc"
    /\ nops < MaxCalls
    /\ NamedEnds(qname, locate_named_stream(cd, qname))

\* the allocation table whose free entries are g and whose directory
\* sector has the entry dnext
WalkTable(g, dnext) ==
    [i \in 1 .. mem_data_secs |->
        IF i = SATSector + 1 THEN SATSID
        ELSE IF i = DirSector + 1 THEN dnext
        ELSE g[i]]

WalkFile(msat, msatx, alt, sat, root, wb, ssat) ==
    [SAT |-> sat, MSAT |-> msat,
     MSATX_first_sec_sid |-> msatx[1], MSATX_tot_secs |-> msatx[2],
     alt |-> alt, ext |-> <<>>,
     dirlist |-> << root, wb, Stream(2, "Book", 1, sec_size) >>,
     min_size_std_stream |-> sec_size,
     SSAT_first_sec_sid |-> ssat[1], SSAT_tot_secs |-> ssat[2],
     SSATent |-> <<EOCSID>>]

NoAlt == [i \in 1 .. mem_data_secs |-> FREESID]

\* containers that differ in the master table and its extension
MsatFiles ==
    { WalkFile(msat, <<xfirst, xtot>>,
               [NoAlt EXCEPT ![1] = a, ![mem_data_secs] = nx],
               WalkTable([i \in 1 .. NFree |-> EOCSID], EOCSID),
               RootEntry(EOCSID, 0), Stream(1, "Workbook", 0, sec_size),
               <<EOCSID, 0>>) :
      msat \in { <<SATSector>>, <<SATSector, 0>>, <<0>>,
                 <<SATSector, SATSector>>, <<mem_data_secs, SATSector>>,
                 <<SATSID>>, <<FREESID>> },
      xfirst \in {EOCSID, 0, 1, mem_data_secs, SATSID},
      xtot \in {0, 1},
      a \in {FREESID, SATSector, 1},
      nx \in {EOCSID, 0, 1, SATSector} }

\* containers that differ in the chains of the allocation table
ChainFiles ==
    { WalkFile(<<SATSector>>, <<EOCSID, 0>>, NoAlt, WalkTable(g, dnext),
               root, Stream(1, "Workbook", f1, z1), ssat) :
      g \in [1 .. NFree -> SidVals],
      dnext \in {EOCSID, 0, DirSector, mem_data_secs},
      root \in {RootEntry(EOCSID, 0), RootEntry(0, sec_size)},
      f1 \in {0, 1},
      z1 \in {sec_size, 2 * sec_size},
      ssat \in { <<EOCSID, 0>>, <<1, 1>>, <<mem_data_secs, 1>> } }

\* the containers with short streams, their master table the one sector
ShortWalkFiles ==
    { [MSAT |-> <<SATSector>>, MSATX_first_sec_sid |-> EOCSID,
       MSATX_tot_secs |-> 0, alt |-> f.SSATent, ext |-> <<>>] @@ f :
      f \in ShortFiles }

\* containers with a master-table extension of up to two sectors, sector 0
\* and sector 1, each with its own link word
ExtSector(x, link) == [i \in 1 .. mem_data_secs |->
                         IF i = mem_data_secs THEN link ELSE x]

ExtFiles ==
    { [WalkFile(msat, <<xfirst, xtot>>, NoAlt,
                WalkTable([i \in 1 .. NFree |-> EOCSID], EOCSID),
                RootEntry(EOCSID, 0), Stream(1, "Workbook", 0, sec_size),
                <<EOCSID, 0>>)
          EXCEPT !.ext = <<ExtSector(x, link0), ExtSector(FREESID, link1)>>] :
      msat \in { <<SATSector>>, <<SATSector, FREESID>> },
      xfirst \in {EOCSID, FREESID, 0, 1},
      xtot \in {0, 2},
      x \in {FREESID, EOCSID},
      link0 \in {EOCSID, FREESID, MSATSID, 0, 1},
      link1 \in {EOCSID, MSATSID, 0} }

WalkFiles == MsatFiles \cup ChainFiles \cup ShortWalkFiles \cup ExtFiles

InitWalk ==
    /\ \E cdfile \in WalkFiles, ignore \in BOOLEAN :
          /\ file = [Call("ok", TRUE, TRUE, TRUE, cdfile, <<>>, FALSE, 0)
                        EXCEPT !.ignore_wb_corruption = ignore]
          /\ cd = [exc |-> "", ignore_workbook_corruption |-> ignore,
                   SAT |-> <<>>, MSAT |-> <<>>,
                   seen |-> Zeros(mem_data_secs), dirlist |-> <<>>,
                   min_size_std_stream |-> cdfile.min_size_std_stream,
                   SSCS |-> BytesBuf(<<>>), SSAT |-> <<>>]
    /\ cd_log = <<>>
    /\ bk = Book__init__
    /\ maps = NoMaps
    /\ made = 0
    /\ pc = "msatx"
    /\ err = NoErr
    /\ raised = ""
    /\ last = NoCall
    /\ nops = 0

NextWalk ==
    \/ WalkMSATX
    \/ WalkSAT
    \/ WalkDirectory
    \/ WalkSSCS
    \/ WalkSSAT
    \/ \E qname \in QNames : WalkNamedStream(qname)

SpecWalk == InitWalk /\ [][NextWalk]_vars

(***************************************************************************)
(* What a chain holds, said without the walk's bookkeeping                 *)
(***************************************************************************)
\* the first n sectors of the chain that starts at s, as far as it stays
\* inside the table
RECURSIVE ChainFrom(_, _, _)
ChainFrom(sat, s, n) ==
    IF n = 0 \/ s < 0 \/ s >= Len(sat) THEN <<>>
    ELSE <<s>> \o ChainFrom(sat, sat[s + 1], n - 1)

Distinct(ch) == \A i, j \in 1 .. Len(ch) : i # j => ch[i] # ch[j]

SectorsFor(size, ssz) == (size + ssz - 1) \div ssz

\* the stream entry a lookup of qname resolves to (0 when there is none)
EntryOf(c, qname) ==
    LET hits == {k \in 2 .. Len(c.dirlist) :
                    lower(c.dirlist[k].name) = lower(qname)}
    IN  IF hits = {} THEN 0 ELSE CHOOSE k \in hits : \A m \in hits : k <= m

IsStd(c, d) == d.tot_size >= c.min_size_std_stream

\* the chain of a standard stream ends after exactly the sectors its size
\* needs
StdChain(c, d) == ChainFrom(c.SAT, d.first_SID, SectorsFor(d.tot_size, sec_size))
StdChainComplete(c, d) ==
    LET n == SectorsFor(d.tot_size, sec_size)
        ch == StdChain(c, d)
    IN  /\ n >= 1
        /\ Len(ch) = n
        /\ c.SAT[ch[n] + 1] = EOCSID

\* byte k (from 1) of a stream is byte (k-1) % ssz of its sector (k-1) \div ssz
StdBytes(c, d) ==
    LET ch == StdChain(c, d)
    IN  [k \in 1 .. d.tot_size |->
            HEADER_SIZE + ch[((k - 1) \div sec_size) + 1] * sec_size
                + ((k - 1) % sec_size)]

ShortChain(c, d) ==
    ChainFrom(c.SSAT, d.first_SID, SectorsFor(d.tot_size, short_sec_size))
ShortBytes(c, d) ==
    LET ch == ShortChain(c, d)
    IN  [k \in 1 .. d.tot_size |->
            c.SSCS.data[ch[((k - 1) \div short_sec_size) + 1] * short_sec_size
                          + ((k - 1) % short_sec_size) + 1]]

\* a well-formed stream: its chain has the sectors its size needs, each
\* inside the file (inside the short-stream container), none twice, none
\* taken by another chain, and ends with the end-of-chain mark
WellFormedStd(c, d, seen0) ==
    /\ IsStd(c, d)
    /\ d.tot_size <= mem_data_len
    /\ StdChainComplete(c, d)
    /\ Distinct(StdChain(c, d))
    /\ \A i \in 1 .. Len(StdChain(c, d)) : seen0[StdChain(c, d)[i] + 1] = 0

WellFormedShort(c, d) ==
    LET n == SectorsFor(d.tot_size, short_sec_size)
        ch == ShortChain(c, d)
    IN  /\ ~IsStd(c, d)
        /\ d.tot_size <= mem_data_len
        /\ Len(ch) = n
        /\ Distinct(ch)
        /\ \A i \in 1 .. n : (ch[i] + 1) * short_sec_size <= Len(c.SSCS.data)
        /\ IF n = 0 THEN d.first_SID = EOCSID
           ELSE c.SSAT[ch[n] + 1] = EOCSID

\* what a call returned, as bytes
Returned(e) == Slice(e.mem, e.base, e.base + e.len)

C2_AsClaimed ==
    \A i \in 1 .. Len(cd_log) :
        LET e == cd_log[i]
            d == cd.dirlist[EntryOf(cd, e.qname)]
        IN  e.hit =>
              IF cd.ignore_workbook_corruption
              THEN e.exc = "" /\ e.len = d.tot_size
              ELSE e.exc = "CompDocError"

(***************************************************************************)
(* C2, amended.  Reaching a marked sector raises CompDocError under        *)
(* default settings.  With the flag set the revisit itself does not raise  *)
(* and the walk goes on: the call returns the stream's full bytes (the     *)
(* chain's sectors in chain order, cut to the declared size) whenever the  *)
(* chain ends after exactly the sectors the declared size needs, and it    *)
(* raises CompDocError only for a chain with more sectors than that, as    *)
(* every chain that runs into a cycle has.                                 *)
(***************************************************************************)
C2_Revisit ==
    \A i \in 1 .. Len(cd_log) :
        LET e == cd_log[i]
            d == cd.dirlist[EntryOf(cd, e.qname)]
            n == SectorsFor(d.tot_size, sec_size)
        IN  e.hit =>
              /\ ~cd.ignore_workbook_corruption => e.exc = "CompDocError"
              /\ cd.ignore_workbook_corruption /\ StdChainComplete(cd, d) =>
                    /\ e.exc = ""
                    /\ e.len = d.tot_size
                    /\ Returned(e) = StdBytes(cd, d)
              /\ cd.ignore_workbook_corruption /\ e.exc = "CompDocError" =>
                    Len(ChainFrom(cd.SAT, d.first_SID, n + 1)) = n + 1

\* with the flag set, a walk ran over a marked sector and the call returned
\* a stream of more than one sector
C2_Witness ==
    \E i \in 1 .. Len(cd_log) :
        /\ cd_log[i].hit
        /\ cd.ignore_workbook_corruption
        /\ cd_log[i].exc = ""
        /\ cd_log[i].len > sec_size

(***************************************************************************)
(* Claims on the Book loader.  What a workbook stream declares, said       *)
(* without the loader's bookkeeping.                                       *)
(***************************************************************************)
\* index of the first record with the code, 0 when there is none
FirstIndex(recs, code) ==
    IF \E i \in 1 .. Len(recs) : recs[i].code = code
    THEN CHOOSE i \in 1 .. Len(recs) :
            /\ recs[i].code = code
            /\ \A j \in 1 .. (i - 1) : recs[j].code # code
    ELSE 0

\* the names of the worksheet declarations of a BIFF 5-8 stream, in order:
\* its globals end at the first EOF record
DeclaredNames(recs) ==
    LET decl == SelectSeq(SubSeq(recs, 1, FirstIndex(recs, "EOF")),
                          LAMBDA r : r.code = "BOUNDSHEET" /\ r.n2 = 0)
    IN  [i \in 1 .. Len(decl) |-> decl[i].name]

\* a worksheet BOF record at index i, its substream closed by an EOF
GoodSheetAt(recs, i) ==
    /\ i > 0
    /\ recs[i].code = "BOF"
    /\ recs[i].name = "worksheet"
    /\ \E j \in (i + 1) .. Len(recs) : recs[j].code = "EOF"

\* release_resources has run on the Book
Released(b) ==
    /\ b._resources_released # 0
    /\ b.mem = NoneBuf
    /\ b.filestr = NoneBuf
    /\ b._sharedstrings = "None"
    /\ b._rich_text_runlist_map = "None"

\* this step is a call of op on the Book
IsCall(op) == nops' = nops + 1 /\ last'.op = op

\* the step changes nothing of the Book, its mappings and its sheets
BookUnchanged == bk' = bk /\ maps' = maps /\ made' = made

ReleasedError == "XLRDError: Can't load sheets after releasing resources."

(***************************************************************************)
(* C3.  After open_workbook_xls succeeds with on_demand=True on a BIFF 5.0 *)
(* or later workbook, sheet_names() is the list of the worksheet names in  *)
(* declaration order, no sheet body has been decoded (every entry of the   *)
(* sheet cache is empty, sheet_loaded(i) is False for every i in           *)
(* range(nsheets), no Sheet was constructed) and the resources have not    *)
(* been released.                                                          *)
(***************************************************************************)
C3_OnDemandOpen ==
    (pc = "opened" /\ file.on_demand /\ bk.biff_version >= 50) =>
        /\ sheet_names(bk) = DeclaredNames(file.recs)
        /\ bk.nsheets = Len(sheet_names(bk))
        /\ Len(bk._sheet_list) = bk.nsheets
        /\ \A i \in 0 .. (bk.nsheets - 1) : ~sheet_loaded(bk, i)
        /\ made = 0
        /\ bk._resources_released = 0
        /\ bk.mem # NoneBuf

\* an on-demand open of a BIFF 8 workbook that declares two worksheets and
\* a chart has returned
C3_Witness ==
    /\ pc = "opened"
    /\ file.on_demand
    /\ bk.biff_version = 80
    /\ Len(bk._sheet_names) = 2
    /\ bk._all_sheets_count = 3

C5_AsClaimed ==
    pc = "opened" =>
        /\ bk.nsheets = Len(sheet_names(bk))
        /\ bk.nsheets = Len(bk._sheet_list)
        /\ bk.nsheets >= Len(bk._sheet_names)
        /\ \A i \in 0 .. (bk.nsheets - 1) :
              /\ i < Len(bk._sheet_names)
              /\ sheet_by_index(Here, file, i).w.exc = "" =>
                    sheet_by_index(Here, file, i).ret.name
                      = sheet_names(bk)[i + 1]
              /\ sheets(Here, file, 0).w.exc = "" =>
                    sheets(Here, file, 0).ret[i + 1].name
                      = sheet_names(bk)[i + 1]
              /\ sheet_by_name(Here, file, sheet_names(bk)[i + 1]).w.exc = "" =>
                    sheet_by_name(Here, file, sheet_names(bk)[i + 1]).ret.name
                      = sheet_names(bk)[i + 1]

(***************************************************************************)
(* C6.  In the streams of the model a FILEPASS record occurs only between  *)
(* the globals BOF and the globals EOF.                                    *)
(***************************************************************************)
\* the cursor has passed the first FILEPASS record
FilepassReached ==
    /\ FirstIndex(file.recs, "FILEPASS") > 0
    /\ pc \in {"except", "raised"}
    /\ err.at = "bof"
    /\ bk._position
         >= bk.base + Off(file.recs, FirstIndex(file.recs, "FILEPASS") + 1)

\* the bytes the records e .. j hold for an EXTERNSHEET record at e
RECURSIVE HeldBy(_, _, _)
HeldBy(recs, e, j) ==
    IF j <= e THEN recs[e].length ELSE recs[j].length + HeldBy(recs, e, j - 1)

\* record i is read as a continuation of a BIFF 8 EXTERNSHEET record that
\* is short of the bytes its reference count asks for
ReadAsContinuation(recs, i) ==
    \E e \in 1 .. (i - 1) :
        /\ recs[e].code = "EXTERNSHEET"
        /\ \A j \in (e + 1) .. (i - 1) : recs[j].code = "CONTINUE"
        /\ HeldBy(recs, e, i - 1) < recs[e].n1 * 6 + 2

C7_ReleaseOnError ==
    pc = "raised" =>
        /\ Released(bk)
        /\ maps.file # "open"
        /\ err.exc # ""
        /\ raised = err.exc

\* the sheet decode of a load that is not on demand raised, on a file that
\* is mapped
C7_Witness ==
    /\ pc = "raised"
    /\ err.at = "globals"
    /\ maps.file = "closed"
    /\ bk._sheet_names # <<>>

(***************************************************************************)
(* C8.  release_resources never raises, whatever the state of the Book     *)
(* (freshly constructed, loaded, on demand with sheets loaded, released),  *)
(* and a call on a Book that is already released changes nothing: the      *)
(* state after a second or later call is the state after the first.        *)
(***************************************************************************)
C8_ReleaseIdempotent ==
    [][ IsCall("release_resources") =>
          /\ last'.exc = ""
          /\ Released(bk')
          /\ bk._resources_released # 0 => BookUnchanged
      ]_vars

\* release_resources was called on a Book already released that still
\* holds a loaded sheet
C8_Witness ==
    /\ last.op = "release_resources"
    /\ last.released
    /\ last.exc = ""
    /\ Released(bk)
    /\ \E k \in 1 .. Len(bk._sheet_list) : bk._sheet_list[k] # NoSheet

(***************************************************************************)
(* C9.  On a released Book, a request for a sheet that is not in the cache *)
(* (sheet_by_index, sheet_by_name, sheets, get_sheet) raises XLRDError and *)
(* changes nothing of the Book, and a request by sheet_by_index,           *)
(* sheet_by_name or sheets for sheets that are in the cache returns them   *)
(* from the cache, again changing nothing.                                 *)
(***************************************************************************)
C9_AfterRelease ==
    [][ (pc = "opened" /\ bk._resources_released # 0) =>
          /\ (IsCall("sheet_by_index") /\ last'.sheetx < Len(bk._sheet_list)) =>
                /\ BookUnchanged
                /\ IF bk._sheet_list[last'.sheetx + 1] = NoSheet
                   THEN last'.exc = ReleasedError
                   ELSE /\ last'.exc = ""
                        /\ last'.ret = bk._sheet_list[last'.sheetx + 1]
          /\ (IsCall("sheet_by_name")
                /\ IndexOf(bk._sheet_names, last'.sheet_name) >= 0
                /\ IndexOf(bk._sheet_names, last'.sheet_name)
                     < Len(bk._sheet_list)) =>
                LET k == IndexOf(bk._sheet_names, last'.sheet_name) + 1
                IN  /\ BookUnchanged
                    /\ IF bk._sheet_list[k] = NoSheet
                       THEN last'.exc = ReleasedError
                       ELSE /\ last'.exc = ""
                            /\ last'.ret = bk._sheet_list[k]
          /\ (IsCall("sheets") /\ bk.nsheets = Len(bk._sheet_list)) =>
                /\ BookUnchanged
                /\ IF \E k \in 1 .. bk.nsheets : bk._sheet_list[k] = NoSheet
                   THEN last'.exc = ReleasedError
                   ELSE last'.exc = ""
          /\ (IsCall("get_sheet") /\ last'.sheetx < Len(bk._sheet_list)
                /\ bk._sheet_list[last'.sheetx + 1] = NoSheet) =>
                /\ BookUnchanged
                /\ last'.exc = ReleasedError
      ]_vars

\* on a released Book that holds a loaded sheet, a sheet_by_index for a
\* sheet that is not loaded raised
C9_Witness ==
    /\ pc = "opened"
    /\ last.op = "sheet_by_index"
    /\ last.released
    /\ last.exc = ReleasedError
    /\ \E k \in 1 .. Len(bk._sheet_list) : bk._sheet_list[k] # NoSheet

(***************************************************************************)
(* C10.  What biff2_8_load is to find in a container, said from the        *)
(* container's directory and allocation table.                             *)
(***************************************************************************)
\* the container of the call, as CompDoc reads it
TheCD == CompDoc__init__(file.cdfile, file.ignore_wb_corruption)

\* entry k of c is a well-formed stream
Usable(c, k) ==
    /\ k # 0
    /\ \/ WellFormedStd(c, c.dirlist[k], c.seen)
       \/ WellFormedShort(c, c.dirlist[k])

\* the bytes of the well-formed stream at entry k
BytesOf(c, k) ==
    IF IsStd(c, c.dirlist[k]) THEN StdBytes(c, c.dirlist[k])
    ELSE ShortBytes(c, c.dirlist[k])

\* there is no entry k, or it is a well-formed stream of no bytes
AbsentOrEmpty(c, k) ==
    k = 0 \/ (Usable(c, k) /\ c.dirlist[k].tot_size = 0)

\* the load returned with the stream qname as the Book's record stream
LoadedFrom(c, qname) ==
    /\ pc = "loaded"
    /\ bk.stream_len = c.dirlist[EntryOf(c, qname)].tot_size
    /\ Slice(bk.mem, bk.base, bk.base + bk.stream_len)
         = BytesOf(c, EntryOf(c, qname))
    /\ bk._position = bk.base

CantFind ==
    /\ pc = "except"
    /\ err.exc = "XLRDError: Can't find workbook in OLE2 compound document"

\* the load returned with the whole input as the record stream
LoadedBare ==
    /\ pc = "loaded"
    /\ bk.mem = MemBuf
    /\ bk.base = 0
    /\ bk.stream_len = FileSize(file)
    /\ bk._position = 0

(***************************************************************************)
(* C10, as claimed.  On an input with the container signature, a           *)
(* 'Workbook' stream that is found is the one used; a 'Book' stream is     *)
(* used only when there is no 'Workbook' stream; when there is neither the *)
(* load fails with an error.  On an input without the signature the whole  *)
(* input is the record stream, from offset 0.                              *)
(***************************************************************************)
C10_AsClaimed ==
    pc # "start" =>
        IF ~file.container THEN LoadedBare
        ELSE TheCD.exc = "" =>
               /\ Usable(TheCD, EntryOf(TheCD, "Workbook")) =>
                     LoadedFrom(TheCD, "Workbook")
               /\ (/\ EntryOf(TheCD, "Workbook") = 0
                   /\ Usable(TheCD, EntryOf(TheCD, "Book"))) =>
                     LoadedFrom(TheCD, "Book")
               /\ (/\ EntryOf(TheCD, "Workbook") = 0
                   /\ EntryOf(TheCD, "Book") = 0) => CantFind

(***************************************************************************)
(* C10, amended.  On an input with the container signature, a 'Workbook'   *)
(* stream that is found and holds at least one byte is the one used; a     *)
(* 'Workbook' stream of no bytes counts as not found.  A 'Book' stream     *)
(* that holds at least one byte is used when the 'Workbook' stream is not  *)
(* found or empty; when each of the two is not found or empty the load     *)
(* fails with XLRDError 'Can't find workbook in OLE2 compound document'.   *)
(* On an input without the signature the whole input is the record         *)
(* stream, from offset 0.                                                  *)
(***************************************************************************)
C10_Detection ==
    pc # "start" =>
        IF ~file.container THEN LoadedBare
        ELSE TheCD.exc = "" =>
               /\ (/\ Usable(TheCD, EntryOf(TheCD, "Workbook"))
                   /\ ~AbsentOrEmpty(TheCD, EntryOf(TheCD, "Workbook"))) =>
                     LoadedFrom(TheCD, "Workbook")
               /\ (/\ AbsentOrEmpty(TheCD, EntryOf(TheCD, "Workbook"))
                   /\ Usable(TheCD, EntryOf(TheCD, "Book"))
                   /\ ~AbsentOrEmpty(TheCD, EntryOf(TheCD, "Book"))) =>
                     LoadedFrom(TheCD, "Book")
               /\ (/\ AbsentOrEmpty(TheCD, EntryOf(TheCD, "Workbook"))
                   /\ AbsentOrEmpty(TheCD, EntryOf(TheCD, "Book"))) =>
                     CantFind

\* a container with a 'Workbook' and a 'Book' stream, both well formed and
\* not empty, was loaded from its 'Workbook' stream
C10_Witness ==
    /\ file.container
    /\ TheCD.exc = ""
    /\ Usable(TheCD, EntryOf(TheCD, "Workbook"))
    /\ Usable(TheCD, EntryOf(TheCD, "Book"))
    /\ TheCD.dirlist[EntryOf(TheCD, "Workbook")].tot_size > 0
    /\ TheCD.dirlist[EntryOf(TheCD, "Book")].tot_size > 0
    /\ LoadedFrom(TheCD, "Workbook")

(***************************************************************************)
(* Claims on version detection and the record cursor.                      *)
(***************************************************************************)
\* the first record of the stream, a BOF record that getbof accepted as
\* the workbook's: its version is stored
VersionStored ==
    /\ pc \in {"bof", "globals", "opened"}
    /\ Len(file.recs) > 0
    /\ file.recs[1].code = "BOF"

\* the revision whose BOF record r is, by opcode, version word, build/year
\* and stream kind: the opcodes 0x0009, 0x0209, 0x0409 are those of BIFF
\* 2.0, 3.0 and 4.0, the opcode 0x0809 carries the revision in its
\* version word
RevisionOf(r) ==
    IF r.n1 = 0 THEN 20
    ELSE IF r.n1 = 2 THEN 30
    ELSE IF r.n1 = 4 THEN (IF r.name = "globals4w" THEN 45 ELSE 40)
    ELSE IF r.n1 = 8 /\ r.n2 = 1536 THEN 80
    ELSE IF r.n1 = 8 /\ r.n2 = 1280 THEN (IF r.n3 = 1 THEN 50 ELSE 70)
    ELSE 0

DetectedRevision(r) == IF RevisionOf(r) = 20 THEN 21 ELSE RevisionOf(r)

BytesLeft == EndPos(Here, file) - bk._position

\* the buffer can be read: it is there, its mapping is open
Readable == ReadFault(Here, file) = ""

\* the record whose header is at the cursor (0: none)
AtCursor == RecIndexAt(file.recs, bk.base, bk._position)

(***************************************************************************)
(* C12, as claimed.  get_record_parts on a readable buffer: with 4 bytes   *)
(* or more left at the cursor it returns the record whose header is there  *)
(* and advances the cursor by 4 + length; with fewer than 4 bytes left it  *)
(* raises nothing and returns the end-of-stream marker, no record.         *)
(***************************************************************************)
C12_AsClaimed ==
    [][ (IsCall("get_record_parts") /\ Readable) =>
          IF BytesLeft >= 4
          THEN /\ last'.exc = ""
               /\ last'.rec = AtCursor
               /\ AtCursor # 0
               /\ bk'._position
                    = bk._position + 4 + file.recs[AtCursor].length
          ELSE /\ last'.exc = ""
               /\ last'.rec = 0
      ]_vars

\* a bare file was read to its end and the next get_record_parts raised
C12_Witness ==
    /\ ~file.container
    /\ file.cut = 0
    /\ last.op = "get_record_parts"
    /\ last.exc = "struct.error"
    /\ bk._position = EndPos(Here, file)
    /\ nops >= 2

(***************************************************************************)
(* C13.  get_record_parts_conditional(c) on a readable buffer with a       *)
(* record header at the cursor: when the record's code is c the call       *)
(* returns that record and advances the cursor by 4 + length, changing     *)
(* nothing else of the Book; when it is not, the call returns the          *)
(* no-record result and changes nothing of the Book, the cursor included.  *)
(* In neither case does it raise.                                          *)
(***************************************************************************)
C13_ConditionalRead ==
    [][ (IsCall("get_record_parts_conditional") /\ Readable
           /\ AtCursor # 0) =>
          /\ last'.exc = ""
          /\ made' = made
          /\ IF file.recs[AtCursor].code = last'.reqd
             THEN /\ last'.rec = AtCursor
                  /\ bk' = [bk EXCEPT !._position =
                                          @ + 4 + file.recs[AtCursor].length]
             ELSE /\ last'.rec = 0
                  /\ bk' = bk
      ]_vars

\* a conditional read for a code that the record at the cursor has not,
\* after a record was consumed: nothing was returned
C13_Witness ==
    /\ last.op = "get_record_parts_conditional"
    /\ last.exc = ""
    /\ last.rec = 0
    /\ nops >= 2
    /\ bk._position > bk.base
    /\ AtCursor # 0
    /\ file.recs[AtCursor].code # last.reqd

(***************************************************************************)
(* Claims on the container's directory and its chain walks.                *)
(***************************************************************************)
\* the seen set as call i of cd_log left it
SeenAfter(i) == IF i < Len(cd_log) THEN cd_log[i + 1].seen0 ELSE cd.seen

(***************************************************************************)
(* C14.  A lookup of a stream whose directory entry declares more bytes    *)
(* than the file has after its 512-byte header raises CompDocError, and    *)
(* the seen set is after the call what it was before it: no sector of the  *)
(* stream was walked.                                                      *)
(***************************************************************************)
C14_SizeGuard ==
    \A i \in 1 .. Len(cd_log) :
        LET e == cd_log[i]
            k == EntryOf(cd, e.qname)
        IN  (k # 0 /\ cd.dirlist[k].tot_size > file_len - HEADER_SIZE) =>
                /\ e.exc = "CompDocError"
                /\ SeenAfter(i) = e.seen0

\* a stream that declares too many bytes and has a chain to walk, starting
\* at a sector no chain has taken, was looked up
C14_Witness ==
    \E i \in 1 .. Len(cd_log) :
        LET e == cd_log[i]
            k == EntryOf(cd, e.qname)
        IN  /\ k # 0
            /\ cd.dirlist[k].tot_size > file_len - HEADER_SIZE
            /\ cd.dirlist[k].first_SID >= 0
            /\ cd.dirlist[k].first_SID < Len(e.seen0)
            /\ e.seen0[cd.dirlist[k].first_SID + 1] = 0
            /\ e.exc = "CompDocError"

\* the first child of a storage that a path segment names (-1: none)
ChildNamed(dl, storage_DID, seg) ==
    LET kids == dl[storage_DID + 1].children
        hits == {k \in 1 .. Len(kids) : lower(dl[kids[k] + 1].name) = lower(seg)}
    IN  IF hits = {} THEN -1
        ELSE kids[CHOOSE k \in hits : \A m \in hits : k <= m]

\* what a path resolves to, segment by segment from a storage
RECURSIVE PathKind(_, _, _)
PathKind(dl, segs, storage_DID) ==
    LET c == ChildNamed(dl, storage_DID, Head(segs))
        final == Len(segs) = 1
    IN  IF c = -1 THEN [kind |-> "absent", did |-> -1]
        ELSE IF dl[c + 1].etype = 2
        THEN [kind |-> IF final THEN "stream" ELSE "interior stream", did |-> c]
        ELSE IF dl[c + 1].etype = 1
        THEN IF final THEN [kind |-> "final storage", did |-> c]
             ELSE PathKind(dl, Tail(segs), c)
        ELSE [kind |-> "other", did |-> c]

Resolved(qname) == PathKind(cd.dirlist, split(qname), 0)

(***************************************************************************)
(* C15, as claimed.  A lookup of a '/'-separated path, its segments        *)
(* compared case-insensitively with the children of the current storage,   *)
(* returns the stream entry when the final segment names a stream and      *)
(* None when a segment is absent (locate_named_stream then returns         *)
(* (None, 0, 0)), and raises CompDocError both when a segment before the   *)
(* last names a stream and when the last names a storage.                  *)
(***************************************************************************)
C15_AsClaimed ==
    /\ last.op = "_dir_search" =>
          LET o == Resolved(last.reqd)
          IN  /\ o.kind = "stream" => last.exc = "" /\ last.rec = o.did
              /\ o.kind = "absent" => last.exc = "" /\ last.rec = -1
              /\ o.kind \in {"interior stream", "final storage"} =>
                    last.exc = "CompDocError"
    /\ \A i \in 1 .. Len(cd_log) :
          Resolved(cd_log[i].qname).kind = "absent" =>
              /\ cd_log[i].exc = ""
              /\ cd_log[i].mem = NoneBuf
              /\ cd_log[i].base = 0 /\ cd_log[i].len = 0

\* a path whose first segment names a stream and that goes on was looked
\* up: the stream was returned
C15_Witness ==
    /\ last.op = "_dir_search"
    /\ Len(split(last.reqd)) > 1
    /\ Resolved(last.reqd).kind = "interior stream"
    /\ last.exc = ""
    /\ last.rec = Resolved(last.reqd).did

(***************************************************************************)
(* C16.  Under default (strict) settings a cell of the seen set that one   *)
(* walk has set is never written again, by the constructor's walks         *)
(* (master-table extension, allocation-table sectors, directory,           *)
(* short-stream container, short allocation table) or by the walk of a     *)
(* named stream: every sector is in at most one traversed chain.  A walk   *)
(* that comes to a sector whose cell is set raises CompDocError.           *)
(***************************************************************************)
C16_OneChain ==
    ~cd.ignore_workbook_corruption =>
        \A i \in 1 .. Len(cd_log) :
            /\ \A x \in 1 .. Len(cd_log[i].seen0) :
                  cd_log[i].seen0[x] # 0 => SeenAfter(i)[x] = cd_log[i].seen0[x]
            /\ cd_log[i].hit => cd_log[i].exc = "CompDocError"

\* in strict mode the walk of a named stream came to a sector of the
\* directory's chain
C16_Witness ==
    /\ ~cd.ignore_workbook_corruption
    /\ \E i \in 1 .. Len(cd_log) :
          /\ cd_log[i].walk \in QNames
          /\ cd_log[i].hit
          /\ cd_log[i].seen0[cd_log[i].s + 1] = 3
          /\ cd_log[i].exc = "CompDocError"
          /\ SeenAfter(i)[cd_log[i].s + 1] = 3

Sentinels == {EOCSID, FREESID, SATSID, MSATSID, EVILSID}

\* the walk of entry e stopped at a sector id that is no sentinel and no
\* sector of the file
LeftTheFile(e) ==
    /\ e.s \notin Sentinels
    /\ e.s < 0 \/ e.s >= mem_data_secs

(***************************************************************************)
(* C17, as claimed.  A chain walk (master-table extension, directory,      *)
(* short-stream container, short allocation table, named stream) whose     *)
(* next sector id is no sentinel and is outside 0 .. total_sectors - 1     *)
(* ends with CompDocError, and no cell of the seen set is set for it.      *)
(***************************************************************************)
C17_AsClaimed ==
    \A i \in 1 .. Len(cd_log) :
        (cd_log[i].walk # "sat" /\ LeftTheFile(cd_log[i])) =>
            /\ cd_log[i].exc = "CompDocError"
            /\ Len(SeenAfter(i)) = mem_data_secs

\* the directory's chain went on to the sector id one past the last
\* sector of the file: the constructor was left by IndexError
C17_Witness ==
    /\ pc = "raised"
    /\ raised = "IndexError"
    /\ cd_log[Len(cd_log)].walk = "directory"
    /\ cd_log[Len(cd_log)].s = mem_data_secs

(***************************************************************************)
(* C18, as claimed.  Every chain walk of CompDoc ends, whatever the        *)
(* allocation tables hold, chains with a cycle included: the walks of the  *)
(* constructor, the walk of a standard stream in strict and in lenient     *)
(* mode, and the walk of a short stream, which has no seen set.            *)
(***************************************************************************)
C18_AsClaimed ==
    /\ raised # "NonTermination"
    /\ \A i \in 1 .. Len(cd_log) : cd_log[i].exc # "NonTermination"

\* a short stream whose chain in the short allocation table comes back to
\* a short sector it has left was looked up: the walk never ends
C18_Witness ==
    \E i \in 1 .. Len(cd_log) :
        LET k == EntryOf(cd, cd_log[i].walk)
            d == cd.dirlist[k]
        IN  /\ cd_log[i].walk \in QNames
            /\ k # 0
            /\ ~IsStd(cd, d)
            /\ Len(ChainFrom(cd.SSAT, d.first_SID, Len(cd.SSAT) + 1))
                   = Len(cd.SSAT) + 1
            /\ cd_log[i].exc = "NonTermination"

\* the end of the located stream's window: base + stream_len, in the
\* bytes of the records that lie inside the stream
WindowEnd == bk.base + Off(file.recs, file.inside + 1) - file.cut

(***************************************************************************)
(* C19, as claimed.  Every record the cursor reads (get_record_parts,      *)
(* get_record_parts_conditional, getbof) lies inside the window            *)
(* [base, base + stream_len) of the located stream, also when the stream   *)
(* is a view into the whole container file, and the cursor never goes      *)
(* past base + stream_len.                                                 *)
(***************************************************************************)
C19_AsClaimed ==
    pc = "loaded" =>
        /\ bk._position <= WindowEnd
        /\ last.rec <= file.inside
        /\ ~file.container => bk._position <= bk.base + bk.stream_len

\* the stream is a view into the container file and the cursor has
\* returned a record that lies after the stream's last byte
C19_Witness ==
    /\ pc = "loaded"
    /\ file.container
    /\ bk.mem.kind = "mem"
    /\ last.exc = ""
    /\ last.rec > file.inside
    /\ bk._position > WindowEnd

(***************************************************************************)
(* Claims on the global phase.                                             *)
(***************************************************************************)
FullEpilogues == <<"xf", "names", "palette">>

\* parse_globals has returned and nothing has run since
ParsedGlobals == pc = "globals" /\ bk.biff_version >= 45

\* the first EOF record of the stream in stream order (0: none)
FirstEOF ==
    LET at == {i \in 2 .. Len(file.recs) : file.recs[i].code = "EOF"}
    IN  IF at = {} THEN 0 ELSE CHOOSE i \in at : \A j \in at : i <= j

\* the first EOF record from record i on that lies in no sheet substream
\* embedded after a SHEETHDR record (0: none)
RECURSIVE LoopEOF(_, _)
LoopEOF(recs, i) ==
    IF i = 0 \/ i > Len(recs) THEN 0
    ELSE IF recs[i].code = "EOF" THEN i
    ELSE IF recs[i].code = "SHEETHDR"
    THEN LoopEOF(recs, RecIndexAt(recs, 0, Off(recs, i + 1) + recs[i].n1))
    ELSE LoopEOF(recs, i + 1)

\* the epilogues run all three in order or not at all, and not at all when
\* a record before the EOF record raises; when parse_globals returns they
\* have run and the cursor is just after EOF record i
EpiloguesAt(i) ==
    /\ bk.epilogues \in {<<>>, FullEpilogues}
    /\ err.at = "bof" => bk.epilogues = <<>>
    /\ ParsedGlobals =>
          /\ bk.epilogues = FullEpilogues
          /\ i # 0
          /\ bk._position = bk.base + Off(file.recs, i + 1)

PyIndex(n, i) == IF i < 0 THEN Max(i + n, 0) ELSE Min(i, n)

\* data[a:b] of a bytes object
PySlice(data, a, b) ==
    SeqBytes(data, PyIndex(Len(data), a), PyIndex(Len(data), b))

\* unpack('<H', raw)[0]; -1 stands for struct.error
unpack_H(raw) == IF Len(raw) # 2 THEN -1 ELSE raw[1] + 256 * raw[2]

\* unpack('<i', raw)[0] for the non-negative values; -1 stands for
\* struct.error
unpack_i(raw) ==
    IF Len(raw) # 4 THEN -1
    ELSE raw[1] + 256 * raw[2] + 65536 * raw[3] + 16777216 * raw[4]

\* the outcome of a decoding: the text, or the exception
Decoded(text) == [text |-> text, exc |-> ""]
Undecodable == [text |-> <<>>, exc |-> "UnicodeDecodeError"]
Prepend(c, r) == IF r.exc # "" THEN r ELSE [r EXCEPT !.text = <<c>> \o @]

\* unicode(raw, "latin_1"): one code point per byte
latin_1(raw) == Decoded([i \in 1 .. Len(raw) |-> raw[i]])

IsHighSurrogate(u) == u >= 55296 /\ u <= 56319
IsLowSurrogate(u) == u >= 56320 /\ u <= 57343

\* the 16-bit code units of a little-endian byte string
CodeUnits(raw) ==
    [i \in 1 .. (Len(raw) \div 2) |-> raw[2 * i - 1] + 256 * raw[2 * i]]

\* the code points of a sequence of code units: a surrogate pair is one
\* code point, half a pair cannot be decoded
RECURSIVE DecodeUnits(_)
DecodeUnits(us) ==
    IF us = <<>> THEN Decoded(<<>>)
    ELSE IF IsLowSurrogate(us[1]) THEN Undecodable
    ELSE IF ~IsHighSurrogate(us[1]) THEN Prepend(us[1], DecodeUnits(Tail(us)))
    ELSE IF Len(us) < 2 THEN Undecodable
    ELSE IF ~IsLowSurrogate(us[2]) THEN Undecodable
    ELSE Prepend(65536 + (us[1] - 55296) * 1024 + (us[2] - 56320),
                 DecodeUnits(Tail(Tail(us))))

\* unicode(raw, "utf_16_le")
utf_16_le(raw) ==
    IF Len(raw) % 2 = 1 THEN Undecodable ELSE DecodeUnits(CodeUnits(raw))

\* The state of unpack_SST_table: the record in hand (data is
\* data_tab[datainx]), the position in it, the option byte in force, the
\* text and the number of characters gathered for the string in hand, the
\* strings and the rich-text runs decoded so far, rtcount and phosz of
\* the string in hand.
SstStart ==
    [datainx |-> 0, pos |-> 8, options |-> 0, accstrg |-> <<>>,
     chars_got |-> 0, rtcount |-> 0, phosz |-> 0, runs |-> <<>>,
     strings |-> <<>>, richtext_runs |-> <<>>, exc |-> ""]

SstData(data_tab, st) == data_tab[st.datainx + 1]
SstFail(st, e) == [st EXCEPT !.exc = e]

\* the characters of one string: the `while True` loop
RECURSIVE SstChars(_, _, _)
SstCharsNext(data_tab, nchars, st, chars_avail, dec, step) ==
    IF dec.exc # "" THEN SstFail(st, dec.exc)
    ELSE IF st.chars_got + chars_avail = nchars
    THEN [st EXCEPT !.accstrg = @ \o dec.text, !.pos = @ + step,
                    !.chars_got = nchars]
    ELSE IF st.datainx + 1 >= Len(data_tab) THEN SstFail(st, "IndexError")
    ELSE IF Len(data_tab[st.datainx + 2]) = 0 THEN SstFail(st, "IndexError")
    ELSE SstChars(data_tab, nchars,
                  [st EXCEPT !.accstrg = @ \o dec.text,
                             !.chars_got = @ + chars_avail,
                             !.datainx = @ + 1,
                             !.options = data_tab[st.datainx + 2][1],
                             !.pos = 1])

SstUncompressed(data_tab, nchars, st, chars_avail) ==
    SstCharsNext(data_tab, nchars, st, chars_avail,
                 utf_16_le(PySlice(SstData(data_tab, st), st.pos,
                                   st.pos + 2 * chars_avail)),
                 2 * chars_avail)

SstCompressed(data_tab, nchars, st, chars_avail) ==
    SstCharsNext(data_tab, nchars, st, chars_avail,
                 latin_1(PySlice(SstData(data_tab, st), st.pos,
                                 st.pos + chars_avail)),
                 chars_avail)

SstChars(data_tab, nchars, st) ==
    IF st.options % 2 = 1
    THEN SstUncompressed(data_tab, nchars, st,
             Min((Len(SstData(data_tab, st)) - st.pos) \div 2,
                 nchars - st.chars_got))
    ELSE SstCompressed(data_tab, nchars, st,
             Min(Len(SstData(data_tab, st)) - st.pos, nchars - st.chars_got))

\* the rich-text runs of one string: `for runindex in xrange(rtcount)`
RECURSIVE SstRuns(_, _, _)
SstRun(data_tab, st, todo, raw) ==
    IF Len(raw) # 4 THEN SstFail(st, "struct.error")
    ELSE SstRuns(data_tab,
                 [st EXCEPT !.runs = Append(@, <<unpack_H(SubSeq(raw, 1, 2)),
                                                 unpack_H(SubSeq(raw, 3, 4))>>),
                            !.pos = @ + 4],
                 todo - 1)

SstRunAt(data_tab, st, todo) ==
    SstRun(data_tab, st, todo,
           PySlice(SstData(data_tab, st), st.pos, st.pos + 4))

SstRuns(data_tab, st, todo) ==
    IF st.exc # "" \/ todo = 0 THEN st
    ELSE IF st.pos # Len(SstData(data_tab, st)) THEN SstRunAt(data_tab, st, todo)
    ELSE IF st.datainx + 1 >= Len(data_tab) THEN SstFail(st, "IndexError")
    ELSE SstRunAt(data_tab, [st EXCEPT !.pos = 0, !.datainx = @ + 1], todo)

\* richtext_runs[len(strings)] = runs
SstRunsDone(st) ==
    IF st.exc # "" THEN st
    ELSE [st EXCEPT !.richtext_runs =
                        Append(@, [at |-> Len(st.strings), runs |-> st.runs])]

SstRichText(data_tab, st) ==
    IF st.exc # "" \/ st.rtcount = 0 THEN st
    ELSE SstRunsDone(SstRuns(data_tab, st, st.rtcount))

\* the end of one string: the phonetic block is skipped, the position is
\* carried over into the next record, the string is appended
SstAppend(st) ==
    [st EXCEPT !.strings = Append(@, st.accstrg)]

SstCarry(data_tab, n_strings, st, pos) ==
    IF pos < Len(SstData(data_tab, st))
    THEN SstAppend([st EXCEPT !.pos = pos])
    ELSE IF st.datainx + 1 < Len(data_tab)
    THEN SstAppend([st EXCEPT !.pos = pos - Len(SstData(data_tab, st)),
                              !.datainx = @ + 1])
    ELSE IF Len(st.strings) # n_strings - 1
    THEN SstFail(st, "AssertionError")
    ELSE SstAppend([st EXCEPT !.pos = pos - Len(SstData(data_tab, st))])
    \* there: datainx = ndatas and data stays the last record; no read follows

SstEnd(data_tab, n_strings, st) ==
    IF st.exc # "" THEN st
    ELSE SstCarry(data_tab, n_strings, st, st.pos + st.phosz)

\* the head of one string: nchars, the option byte, rtcount and phosz
SstPhonetic(data_tab, st) ==
    IF st.exc # "" \/ (st.options \div 4) % 2 = 0 THEN st
    ELSE IF Len(PySlice(SstData(data_tab, st), st.pos, st.pos + 4)) # 4
    THEN SstFail(st, "struct.error")
    ELSE [st EXCEPT !.phosz = unpack_i(PySlice(SstData(data_tab, st),
                                               st.pos, st.pos + 4)),
                    !.pos = @ + 4]

SstRich(data_tab, st) ==
    IF (st.options \div 8) % 2 = 0 THEN st
    ELSE IF Len(PySlice(SstData(data_tab, st), st.pos, st.pos + 2)) # 2
    THEN SstFail(st, "struct.error")
    ELSE [st EXCEPT !.rtcount = unpack_H(PySlice(SstData(data_tab, st),
                                                 st.pos, st.pos + 2)),
                    !.pos = @ + 2]

SstOptions(data_tab, st) ==
    IF st.pos >= Len(SstData(data_tab, st)) THEN SstFail(st, "IndexError")
    ELSE SstPhonetic(data_tab,
             SstRich(data_tab,
                 [st EXCEPT !.options = SstData(data_tab, st)[st.pos + 1],
                            !.pos = @ + 1]))

SstBody(data_tab, n_strings, st, nchars) ==
    IF st.exc # "" THEN st
    ELSE SstEnd(data_tab, n_strings,
                SstRichText(data_tab, SstChars(data_tab, nchars, st)))

SstString(data_tab, n_strings, st, nchars) ==
    IF nchars < 0 THEN SstFail(st, "struct.error")
    ELSE SstBody(data_tab, n_strings,
                 SstOptions(data_tab,
                     [st EXCEPT !.pos = @ + 2, !.accstrg = <<>>,
                                !.chars_got = 0, !.rtcount = 0,
                                !.phosz = 0, !.runs = <<>>]),
                 nchars)

\* `for _unused_i in xrange(n_strings)`
RECURSIVE SstStrings(_, _, _)
SstStrings(data_tab, n_strings, st) ==
    IF st.exc # "" \/ Len(st.strings) >= n_strings THEN st
    ELSE SstStrings(data_tab, n_strings,
             SstString(data_tab, n_strings, st,
                 unpack_H(PySlice(SstData(data_tab, st), st.pos, st.pos + 2))))

unpack_SST_table(data_tab, n_strings) ==
    SstStrings(data_tab, n_strings, SstStart)

(***************************************************************************)
(* Specification SpecSST: one shared-string table of two strings, written  *)
(* whole into the SST record or with the characters of its first string    *)
(* cut after k code units, the rest going into a CONTINUE record behind    *)
(* an option byte of its own.  file holds the table, last the outcome of   *)
(* the latest unpack_SST_table.                                            *)
(***************************************************************************)
MaxItems == 3

\* "A", "e" with acute (both fit one byte), Greek Omega (needs 16 bits) and
\* U+1F600, a surrogate pair
SstItems == {<<65>>, <<233>>, <<937>>, <<55357, 56832>>}

SstTexts == {Flatten(ss) : ss \in SeqsUpTo(SstItems, MaxItems) \ {<<>>}}

Compressible(us) == \A i \in 1 .. Len(us) : us[i] < 256

\* the characters as the writer lays them down, one or two bytes each
EncodeUnits(us, wide) ==
    IF wide THEN Join([i \in 1 .. Len(us) |-> <<us[i] % 256, us[i] \div 256>>])
    ELSE us

OptionByte(wide, rich, pho) ==
    (IF wide THEN 1 ELSE 0) + (IF pho THEN 4 ELSE 0) + (IF rich THEN 8 ELSE 0)

\* nchars, options, then the count of runs and the size of the phonetic
\* block when the string has them
StringHead(nchars, wide, rich, pho) ==
    <<nchars % 256, nchars \div 256, OptionByte(wide, rich, pho)>>
        \o (IF rich THEN <<1, 0>> ELSE <<>>)
        \o (IF pho THEN <<2, 0, 0, 0>> ELSE <<>>)

\* one formatting run and a phonetic block of two bytes
StringTail(rich, pho) ==
    (IF rich THEN <<1, 0, 2, 0>> ELSE <<>>) \o (IF pho THEN <<7, 7>> ELSE <<>>)

WholeString(us, wide, rich, pho) ==
    StringHead(Len(us), wide, rich, pho) \o EncodeUnits(us, wide)
        \o StringTail(rich, pho)

\* total and unique counts of the SST record
SstHead(n) == <<n, 0, 0, 0, n, 0, 0, 0>>

SstTable(us, rich, pho, next) ==
    [us |-> us, rich |-> rich, pho |-> pho, next |-> next]

NextString(t) == WholeString(t.next, ~Compressible(t.next), FALSE, FALSE)

\* the table in one record
WholeTable(t, wide) ==
    <<SstHead(2) \o WholeString(t.us, wide, t.rich, t.pho) \o NextString(t)>>

\* the table with the first string cut after k code units
SplitTable(t, k, w1, w2) ==
    <<SstHead(2) \o StringHead(Len(t.us), w1, t.rich, t.pho)
          \o EncodeUnits(SubSeq(t.us, 1, k), w1),
      <<OptionByte(w2, FALSE, FALSE)>>
          \o EncodeUnits(SubSeq(t.us, k + 1, Len(t.us)), w2)
          \o StringTail(t.rich, t.pho) \o NextString(t)>>

NoUnpack ==
    [op |-> "", k |-> 0, w1 |-> FALSE, w2 |-> FALSE, exc |-> "",
     strings |-> <<>>, richtext_runs |-> <<>>]

InitSST ==
    /\ \E us \in SstTexts, rich \in BOOLEAN, pho \in BOOLEAN,
          next \in {<<90>>, <<937, 65>>} :
          file = SstTable(us, rich, pho, next)
    /\ cd = NoCD
    /\ cd_log = <<>>
    /\ bk = Book__init__
    /\ maps = NoMaps
    /\ made = 0
    /\ pc = "sst"
    /\ err = NoErr
    /\ raised = ""
    /\ last = NoUnpack
    /\ nops = 0

\* handle_sst on the records gathered: the count is read from bytes 4 .. 8
\* of the SST record
HandleSst(op, k, w1, w2, strlist) ==
    /\ LET r == unpack_SST_table(strlist, unpack_i(PySlice(strlist[1], 4, 8)))
       IN  last' = [op |-> op, k |-> k, w1 |-> w1, w2 |-> w2, exc |-> r.exc,
                    strings |-> r.strings, richtext_runs |-> r.richtext_runs]
    /\ UNCHANGED <<cd, cd_log, file, bk, maps, made, pc, err, raised, nops>>

UnpackWhole ==
    \E wide \in BOOLEAN :
        /\ ~wide => Compressible(file.us)
        /\ HandleSst("whole", 0, wide, wide, WholeTable(file, wide))

UnpackSplit ==
    \E k \in 1 .. (Len(file.us) - 1), w1 \in BOOLEAN, w2 \in BOOLEAN :
        /\ ~w1 => Compressible(SubSeq(file.us, 1, k))
        /\ ~w2 => Compressible(SubSeq(file.us, k + 1, Len(file.us)))
        /\ HandleSst("split", k, w1, w2, SplitTable(file, k, w1, w2))

NextSST ==
    \/ UnpackWhole
    \/ UnpackSplit

SpecSST == InitSST /\ [][NextSST]_vars

(***************************************************************************)
(* C21: a string split over a CONTINUE record                              *)
(***************************************************************************)
\* what the table decodes to when it is written into one record, the first
\* string in the narrowest mode that holds it
UnsplitStrings ==
    unpack_SST_table(WholeTable(file, ~Compressible(file.us)), 2)

\* the cut falls between the two halves of a surrogate pair
CutsAPair == IsHighSurrogate(file.us[last.k])

\* C21: unpack_SST_table decodes a table whose first string has its
\* characters split at the boundary of a CONTINUE record, each fragment in
\* the mode of its own option byte, to the strings that the unsplit
\* encoding of the same table decodes to: the split string has the same
\* text and the string that follows it is unchanged.
C21_AsClaimed ==
    last.op = "split" =>
        /\ last.exc = ""
        /\ UnsplitStrings.exc = ""
        /\ last.strings = UnsplitStrings.strings

\* a string of UTF-16 code units is cut between the halves of a surrogate
\* pair: the unsplit table decodes, the split one raises
C21_Witness ==
    /\ last.op = "split"
    /\ CutsAPair
    /\ UnsplitStrings.exc = ""
    /\ UnsplitStrings.strings[1] = DecodeUnits(file.us).text
    /\ last.exc = "UnicodeDecodeError"

(***************************************************************************)
(* Specification SpecEnc: the records of the workbook globals that settle  *)
(* the text encoding, the locale and the user name, dispatched one by one  *)
(* by parse_globals on a Book that biff2_8_load and getbof have prepared.  *)
(* last holds the record dispatched last and how its handler ended.        *)
(***************************************************************************)
\* codepages of the CODEPAGE records: in the table (1200, 10000, 32769),
\* in 300 .. 1999 with a codec (437, 1252) and without one (1999), and
\* outside both (40000)
Codepages == {437, 1200, 1252, 1999, 10000, 32769, 40000}

\* encoding_override: none, a codec, UTF-16, a name no codec has
Overrides ==
    {NoEncoding, Enc("ascii", 0), Enc("utf_16_le", 0), Enc("no_such_codec", 0)}

GlobalsRecords ==
    {Rec("CODEPAGE", 2, "", n, 0, 0) : n \in Codepages}
        \cup {Rec("COUNTRY", 4, "", c[1], c[2], 0) :
                  c \in {<<1, 1>>, <<1, 44>>, <<81, 81>>}}
        \cup {Rec("WRITEACCESS", 112, "", 0, 0, 0)}

NoRecord == [op |-> "", exc |-> "", n1 |-> 0, n2 |-> 0]

InitEnc ==
    /\ \E o \in Overrides :
          file = [Bare(<<OtherRec>>, FALSE, 0) EXCEPT !.encoding_override = o]
    /\ \E v \in {21, 45, 50, 80} :
          bk = [biff2_8_load(World(Book__init__, NoMaps, 0, ""), file).bk
                    EXCEPT !.biff_version = v]
    /\ cd = NoCD
    /\ cd_log = <<>>
    /\ maps = NoMaps
    /\ made = 0
    /\ pc = "globals"
    /\ err = NoErr
    /\ raised = ""
    /\ last = NoRecord
    /\ nops = 0

\* one round of the loop of parse_globals on record r
GlobalsEnds(r, w) ==
    /\ bk' = w.bk
    /\ pc' = IF w.exc # "" THEN "raised"
             ELSE IF r.code = "EOF" THEN "parsed" ELSE "globals"
    /\ err' = IF w.exc # "" THEN [at |-> "globals", exc |-> w.exc] ELSE err
    /\ raised' = w.exc
    /\ last' = [op |-> r.code, exc |-> w.exc, n1 |-> r.n1, n2 |-> r.n2]
    /\ nops' = nops + 1
    /\ UNCHANGED <<cd, cd_log, file, maps, made>>

GlobalsRecord(r) ==
    /\ pc = "globals"
    /\ nops < MaxGlobals
    /\ GlobalsEnds(r, Dispatch(Here, file, r))

GlobalsEOF ==
    /\ pc = "globals"
    /\ GlobalsEnds(EOFRec, Dispatch(Here, file, EOFRec))

NextEnc ==
    \/ \E r \in GlobalsRecords : GlobalsRecord(r)
    \/ GlobalsEOF

SpecEnc == InitEnc /\ [][NextEnc]_vars

(***************************************************************************)
(* C22: the encoding derived from a CODEPAGE record                        *)
(***************************************************************************)
\* the encoding the order of priority gives for codepage n
ByPriority(b, n) ==
    IF b.encoding_override # NoEncoding THEN b.encoding_override
    ELSE IF encoding_from_codepage(n) # NoEncoding THEN encoding_from_codepage(n)
    ELSE IF 300 <= n /\ n <= 1999 THEN Enc("cp", n)
    ELSE IF b.biff_version >= 80 THEN Enc("utf_16_le", 0)
    ELSE Enc("unknown_codepage", n)

\* C22: on a CODEPAGE record with codepage N, derive_encoding resolves the
\* encoding by priority (override, codepage table, 'cp<N>' for
\* 300 <= N <= 1999, UTF-16-LE for BIFF 8, an 'unknown codepage' name);
\* when the resolved encoding cannot decode the trial bytes the call raises
\* and the load fails, otherwise it returns and the encoding is stored.
C22_AsClaimed ==
    [][ last'.op = "CODEPAGE" =>
          /\ bk'.encoding = ByPriority(bk, last'.n1)
          /\ TrialDecode(ByPriority(bk, last'.n1)) # "" =>
                 (last'.exc # "" /\ pc' = "raised")
          /\ TrialDecode(ByPriority(bk, last'.n1)) = "" => last'.exc = ""
      ]_vars

\* the same with the trial as the code makes it: on every codepage left
\* by the resolution but 1200
C22_TrialUnless1200 ==
    [][ last'.op = "CODEPAGE" =>
          /\ bk'.encoding = ByPriority(bk, last'.n1)
          /\ (bk'.codepage # 1200 /\ TrialDecode(bk'.encoding) # "") =>
                 (last'.exc = TrialDecode(bk'.encoding) /\ pc' = "raised")
          /\ (bk'.codepage = 1200 \/ TrialDecode(bk'.encoding) = "") =>
                 last'.exc = ""
      ]_vars

\* an override that names no codec went through on a CODEPAGE record of
\* codepage 1200: the handler returned and the name is stored
C22_Witness ==
    /\ last.op = "CODEPAGE"
    /\ last.n1 = 1200
    /\ last.exc = ""
    /\ pc = "globals"
    /\ bk.encoding_override = Enc("no_such_codec", 0)
    /\ bk.encoding = Enc("no_such_codec", 0)
    /\ TrialDecode(bk.encoding) = "LookupError"

(***************************************************************************)
(* C23: a second COUNTRY record with another pair                          *)
(***************************************************************************)
\* C23: a COUNTRY record whose pair differs from the pair recorded before,
\* that pair not being the default (0, 0), is tolerated: its handler does
\* not fail the load and the pair recorded before is kept.
C23_AsClaimed ==
    [][ (last'.op = "COUNTRY" /\ bk.countries # <<0, 0>>
            /\ bk.countries # <<last'.n1, last'.n2>>) =>
          /\ last'.exc = ""
          /\ pc' # "raised"
          /\ bk'.countries = bk.countries
      ]_vars

\* a COUNTRY record came after one with another pair: the handler raised
C23_Witness ==
    /\ last.op = "COUNTRY"
    /\ bk.countries \notin {<<0, 0>>, <<last.n1, last.n2>>}
    /\ last.exc = "AssertionError"
    /\ pc = "raised"

(***************************************************************************)
(* C24: the length of the master table                                     *)
(***************************************************************************)
\* the sectors the extension walk i went through: the cells it marked 1
ExtensionSectors(i) ==
    {x \in 1 .. mem_data_secs : cd_log[i].seen0[x] = 0 /\ SeenAfter(i)[x] = 1}

\* the number of integers in a sector (nent)
EntriesPerSector == Len(NoAlt)

\* C24: the master table built from the entries of the header and an
\* extension chain of k sectors has (entries of the header) +
\* k * (entries per sector - 1) entries, the header's entries first: each
\* extension sector gives all its words but the last, which is the link
\* to the next extension sector, and the walk ends at an end-of-chain,
\* free or master-table sentinel.
C24_Cardinality ==
    \A i \in 1 .. Len(cd_log) :
        (cd_log[i].walk = "msatx" /\ cd_log[i].exc = "") =>
            /\ Len(cd.MSAT) = Len(file.cdfile.MSAT)
                   + Cardinality(ExtensionSectors(i)) * (EntriesPerSector - 1)
            /\ SubSeq(cd.MSAT, 1, Len(file.cdfile.MSAT)) = file.cdfile.MSAT
            /\ cd_log[i].s \in {EOCSID, FREESID, MSATSID}

\* an extension chain of two sectors was walked to its end: the second
\* sector was reached through the last word of the first
C24_Witness ==
    /\ pc = "compdoc"
    /\ cd_log[1].walk = "msatx"
    /\ cd_log[1].exc = ""
    /\ Cardinality(ExtensionSectors(1)) = 2
    /\ Len(cd.MSAT) = Len(file.cdfile.MSAT) + 2 * (EntriesPerSector - 1)
    /\ cd_log[1].s = MSATSID

(***************************************************************************)
(* _build_family_tree: the child lists of the storages, resolved from the  *)
(* left, right and root pointers of the directory entries.  An entry here  *)
(* has the fields of DirNode that the resolution reads and writes.         *)
(***************************************************************************)
\* DirNode.__init__: no children, parent -1 (an orphan) until resolved
TreeNode(DID, etype, left_DID, right_DID, root_DID) ==
    [DID |-> DID, etype |-> etype, left_DID |-> left_DID,
     right_DID |-> right_DID, root_DID |-> root_DID,
     children |-> <<>>, parent |-> -1]

\* the child listed first
RecordChild_Prepends(st, parent_DID, child_DID) ==
    [st EXCEPT !.dirlist[parent_DID + 1].children = <<child_DID>> \o @,
               !.dirlist[child_DID + 1].parent = parent_DID]

\* dirlist[parent_DID].children.append(child_DID);
\* dirlist[child_DID].parent = parent_DID
RecordChild(st, parent_DID, child_DID) ==
    [st EXCEPT !.dirlist[parent_DID + 1].children = Append(@, child_DID),
               !.dirlist[child_DID + 1].parent = parent_DID]

\* st = [dirlist, exc]; depth is the depth of the recursion.  A path of
\* pointers longer than the directory runs in a cycle: the recursion goes
\* on until the interpreter's limit, which raises RecursionError.
RECURSIVE _build_family_tree(_, _, _, _)
FamilyNode(st, parent_DID, child_DID) ==
    IF st.exc # "" THEN st ELSE RecordChild(st, parent_DID, child_DID)

FamilyRight(st, parent_DID, child_DID, depth) ==
    IF st.exc # "" THEN st
    ELSE _build_family_tree(st, parent_DID,
                            st.dirlist[child_DID + 1].right_DID, depth + 1)

FamilyStorage(st, child_DID, depth) ==
    IF st.exc # "" \/ st.dirlist[child_DID + 1].etype # 1 THEN st
    ELSE _build_family_tree(st, child_DID,
                            st.dirlist[child_DID + 1].root_DID, depth + 1)

_build_family_tree(st, parent_DID, child_DID, depth) ==
    IF st.exc # "" \/ child_DID < 0 THEN st
    ELSE IF child_DID >= Len(st.dirlist) THEN [st EXCEPT !.exc = "IndexError"]
    ELSE IF depth > Len(st.dirlist) THEN [st EXCEPT !.exc = "RecursionError"]
    ELSE FamilyStorage(
             FamilyRight(
                 FamilyNode(
                     _build_family_tree(st, parent_DID,
                         st.dirlist[child_DID + 1].left_DID, depth + 1),
                     parent_DID, child_DID),
                 parent_DID, child_DID, depth),
             child_DID, depth)

\* CompDoc.__init__: _build_family_tree(dirlist, 0, dirlist[0].root_DID)
ResolveDirectory(dirlist) ==
    _build_family_tree([dirlist |-> dirlist, exc |-> ""], 0,
                       dirlist[1].root_DID, 1)

(***************************************************************************)
(* Specification SpecTree: one decoded directory, then its resolution.     *)
(* file holds the entries as decoded, cd.dirlist the entries as resolved.  *)
(***************************************************************************)
\* entries of the directory besides the root entry
NEntries == 3

\* the pointers an entry d may hold: the entries after it, entry 1 (which
\* closes a cycle or shares an entry), or none; the last entry's successor
\* is outside the directory
TreeEntries(d) ==
    { TreeNode(d, 1, left, right, root) :
        left \in {-1, d + 1}, right \in {-1, d + 2, 1}, root \in {-1, d + 1} }
    \cup { TreeNode(d, 2, left, right, -1) :
        left \in {-1, d + 1}, right \in {-1, d + 2, 1} }

RECURSIVE TreeTails(_)
TreeTails(n) ==
    IF n = 0 THEN {<<>>}
    ELSE { Append(es, e) : es \in TreeTails(n - 1), e \in TreeEntries(n) }

TreeDirs ==
    { <<TreeNode(0, 5, -1, -1, r)>> \o es :
        r \in {1, 2}, es \in TreeTails(NEntries) }

InitTree ==
    /\ \E dirlist \in TreeDirs :
          /\ file = [dirlist |-> dirlist]
          /\ cd = [dirlist |-> dirlist, exc |-> ""]
    /\ cd_log = <<>>
    /\ bk = Book__init__
    /\ maps = NoMaps
    /\ made = 0
    /\ pc = "directory"
    /\ err = NoErr
    /\ raised = ""
    /\ last = NoCall
    /\ nops = 0

\* the directory part of CompDoc.__init__ once the entries are decoded
BuildFamilyTree ==
    /\ pc = "directory"
    /\ cd' = ResolveDirectory(cd.dirlist)
    /\ pc' = IF cd'.exc = "" THEN "resolved" ELSE "raised"
    /\ raised' = cd'.exc
    /\ UNCHANGED <<cd_log, file, bk, maps, made, err, last, nops>>

NextTree == BuildFamilyTree

SpecTree == InitTree /\ [][NextTree]_vars

(***************************************************************************)
(* C25, C26: the storage hierarchy                                         *)
(***************************************************************************)
\* the entries of the binary tree at pointer c in order: left subtree,
\* node, right subtree; n bounds the length of a path
RECURSIVE InOrder(_, _, _)
InOrder(dl, c, n) ==
    IF c < 0 \/ c >= Len(dl) \/ n = 0 THEN <<>>
    ELSE InOrder(dl, dl[c + 1].left_DID, n - 1) \o <<c>>
             \o InOrder(dl, dl[c + 1].right_DID, n - 1)

\* the entries the resolution reaches from the root entry: the children of
\* the root, and of every storage reached
RECURSIVE ReachedFrom(_, _, _)
ReachedFrom(dl, P, n) ==
    LET kids == {InOrder(dl, dl[P + 1].root_DID, Len(dl))[i] :
                    i \in 1 .. Len(InOrder(dl, dl[P + 1].root_DID, Len(dl)))}
    IN  IF n = 0 THEN {}
        ELSE kids \cup UNION { ReachedFrom(dl, k, n - 1) :
                                  k \in {x \in kids : dl[x + 1].etype = 1} }

Reached == ReachedFrom(file.dirlist, 0, Len(file.dirlist))

\* the storages whose tree the resolution builds
ResolvedStorages ==
    {0} \cup {d \in Reached : file.dirlist[d + 1].etype = 1}

\* the number of pointers the resolution follows that lead to entry d
PointersTo(d) ==
    Cardinality({p \in Reached : file.dirlist[p + 1].left_DID = d})
    + Cardinality({p \in Reached : file.dirlist[p + 1].right_DID = d})
    + Cardinality({p \in ResolvedStorages : file.dirlist[p + 1].root_DID = d})

\* every entry is reached along one path at most
Forest == \A d \in 0 .. (Len(file.dirlist) - 1) : PointersTo(d) <= 1

\* children, parents and orphans as the claim has them
HierarchyResolved ==
    /\ \A P \in ResolvedStorages :
          /\ cd.dirlist[P + 1].children
                 = InOrder(file.dirlist, file.dirlist[P + 1].root_DID,
                           Len(file.dirlist))
          /\ \A i \in 1 .. Len(cd.dirlist[P + 1].children) :
                 cd.dirlist[cd.dirlist[P + 1].children[i] + 1].parent = P
    /\ \A d \in 1 .. (Len(cd.dirlist) - 1) :
          d \notin Reached =>
              /\ cd.dirlist[d + 1].parent = -1
              /\ cd.dirlist[d + 1].children = <<>>

C26_AsClaimed == raised # "RecursionError"

\* the pointers reached from the root entry form a cycle and the
\* resolution ended with RecursionError
C26_Witness ==
    /\ pc = "raised"
    /\ raised = "RecursionError"
    /\ \E d \in 1 .. (Len(file.dirlist) - 1) :
          /\ file.dirlist[1].root_DID = d
          /\ file.dirlist[d + 1].right_DID = d

(***************************************************************************)
(* Specification SpecView: one ScatteredMemory over the fragments of a     *)
(* stream, read by index and by slice.  file holds the fragments as        *)
(* _locate_stream lists them, bk.mem the view, last the latest read.  A    *)
(* byte of the container file has its own position for value, so that the  *)
(* reads tell the positions they were made at.                             *)
(***************************************************************************)
\* ScatteredMemory.__getitem__(item) for an integer: the byte, or the
\* exception when the position is outside the file
ScatteredItemAt(_idx) ==
    IF _idx >= file_len THEN [exc |-> "IndexError", ret |-> <<>>]
    ELSE [exc |-> "", ret |-> FileBytes(_idx, _idx + 1)]

ScatteredItemIn(slices, cs, item, idx) ==
    IF idx >= Len(slices) THEN [exc |-> "IndexError", ret |-> <<>>]
    ELSE ScatteredItemAt(slices[idx + 1][1]
                             + (item - (IF idx > 0 THEN cs[idx] ELSE 0)))

ScatteredItem(slices, item) ==
    ScatteredItemIn(slices, cum_sum(slices), item,
                    bisect_left(cum_sum(slices), item))

\* the fragment (start_pos, end_pos) of n sectors from sector s
Fragment(s, n) ==
    <<HEADER_SIZE + s * sec_size, HEADER_SIZE + (s + n) * sec_size>>

\* the sectors of a fragment
FragmentSectors(fr) ==
    {s \in Sids : /\ HEADER_SIZE + s * sec_size >= fr[1]
                  /\ HEADER_SIZE + (s + 1) * sec_size <= fr[2]}

\* lists of two and more fragments as the walk of a chain gives them: no
\* sector twice, and no fragment that starts where the one before it ends
ViewSlices ==
    LET frs == {Fragment(s, n) : s \in Sids, n \in 1 .. 2}
        ok(sl) == /\ Len(sl) >= 2
                  /\ \A i \in 1 .. Len(sl) : sl[i][2] <= file_len
                  /\ \A i, j \in 1 .. Len(sl) :
                        i < j => FragmentSectors(sl[i]) \cap
                                     FragmentSectors(sl[j]) = {}
                  /\ \A i \in 1 .. (Len(sl) - 1) : sl[i + 1][1] # sl[i][2]
    IN  {sl \in SeqsUpTo(frs, mem_data_secs) : ok(sl)}

\* the length of the view
ViewLen(slices) == cum_sum(slices)[Len(slices)]

NoRead == [op |-> "", start |-> 0, stop |-> 0, exc |-> "", ret |-> <<>>]

InitView ==
    /\ \E slices \in ViewSlices :
          /\ file = [slices |-> slices]
                        @@ Call("ok", TRUE, TRUE, TRUE, NoCDFile, <<>>, FALSE, 0)
          /\ bk = [Book__init__ EXCEPT !.mem = ScatteredBuf(slices),
                                       !.stream_len = ViewLen(slices)]
    /\ cd = NoCD
    /\ cd_log = <<>>
    /\ maps = NoMaps
    /\ made = 0
    /\ pc = "view"
    /\ err = NoErr
    /\ raised = ""
    /\ last = NoRead
    /\ nops = 0

\* every read maps the file when the view holds no open mapping
ViewRead(op, start, stop, r) ==
    /\ last' = [op |-> op, start |-> start, stop |-> stop, exc |-> r.exc,
                ret |-> r.ret]
    /\ maps' = [maps EXCEPT !.scattered = "open"]
    /\ UNCHANGED <<cd, cd_log, file, bk, made, pc, err, raised, nops>>

\* mem[item]
GetItem(item) ==
    ViewRead("item", item, item + 1, ScatteredItem(bk.mem.slices, item))

\* mem[start:stop]
GetSlice(start, stop) ==
    ViewRead("slice", start, stop,
             [exc |-> "", ret |-> ScatteredSlice(bk.mem.slices, start, stop)])

NextView ==
    \/ \E item \in 0 .. (bk.stream_len - 1) : GetItem(item)
    \/ \E start \in 0 .. bk.stream_len, stop \in 0 .. bk.stream_len :
          start <= stop /\ GetSlice(start, stop)

SpecView == InitView /\ [][NextView]_vars

(***************************************************************************)
(* C27: the lazy view and the concatenation of its fragments               *)
(***************************************************************************)
\* b''.join(mem[start_pos:end_pos] for start_pos, end_pos in slices)
Concatenation ==
    Join([i \in 1 .. Len(file.slices) |->
            FileBytes(file.slices[i][1], file.slices[i][2])])

\* the index is the first of a fragment other than the first
OnBoundary(item) ==
    \E i \in 1 .. (Len(file.slices) - 1) : cum_sum(file.slices)[i] = item

\* C27: the view over the fragments returns, for every index i with
\* 0 <= i < total length and every slice [a, b) with
\* 0 <= a <= b <= total length, the byte(s) that the concatenation of the
\* fragments in order holds there, indices on a fragment boundary included.
C27_AsClaimed ==
    /\ last.op = "item" =>
          /\ last.exc = ""
          /\ last.ret = SeqBytes(Concatenation, last.start, last.stop)
    /\ last.op = "slice" =>
          /\ last.exc = ""
          /\ last.ret = SeqBytes(Concatenation, last.start, last.stop)

\* the view was read at the first index of its second fragment and gave
\* the byte of the file that follows its first fragment
C27_Witness ==
    /\ last.op = "item"
    /\ last.start = cum_sum(file.slices)[1]
    /\ last.exc = ""
    /\ last.ret = <<file.slices[1][2]>>
    /\ SeqBytes(Concatenation, last.start, last.stop) = <<file.slices[2][1]>>

(***************************************************************************)
(* C28: what release_resources leaves open                                 *)
(***************************************************************************)
HasReleased == bk._resources_released # 0

\* a mapping the process still holds
StillMapped(mapping) == mapping \in {"open", "unreferenced"}

\* C28: once release_resources has run (called on the Book, by the except
\* clause of open_workbook_xls or at the normal end of a load that is not
\* on demand) neither the mapping of the file nor the mapping a lazy
\* fragmented view opened for itself is still held.
C28_AsClaimed ==
    HasReleased => ~StillMapped(maps.file) /\ ~StillMapped(maps.scattered)

\* release_resources has run on a Book whose stream was a lazy view that
\* had been read: the view's mapping is let go of, not closed
C28_Witness ==
    /\ HasReleased
    /\ file.container /\ file.cdfile = ScatCD
    /\ bk.mem = NoneBuf
    /\ maps.scattered = "unreferenced"

\* C28, the mapping of the file: closed by release_resources whenever the
\* load opened one, whichever buffer the stream was left in.
C28_FileMapping == HasReleased => ~StillMapped(maps.file)

(***************************************************************************)
(* C29: lookups repeated on one CompDoc                                    *)
(***************************************************************************)
\* what a lookup gave its caller: the exception or the triple
Outcome(e) == <<e.exc, e.mem, e.base, e.len>>

\* the lookup of qname on the CompDoc as the constructor left it
FirstLookup(seen0, qname) ==
    locate_named_stream([cd EXCEPT !.seen = seen0], qname)

\* the first lookup returned a standard-size stream
ReturnedStd(e) ==
    /\ e.exc = ""
    /\ EntryOf(cd, e.qname) # 0
    /\ IsStd(cd, cd.dirlist[EntryOf(cd, e.qname)])

\* C29: in strict mode a second lookup of a standard-size stream that the
\* first lookup returned gives the same (buffer, offset, length), and the
\* lookup of a name gives what it would have given had no other name been
\* looked up before it.
C29_AsClaimed ==
    Len(cd_log) = 2 =>
       /\ ( /\ cd_log[1].qname = cd_log[2].qname
            /\ ~cd.ignore_workbook_corruption
            /\ ReturnedStd(cd_log[1]) )
          => Outcome(cd_log[2]) = Outcome(cd_log[1])
       /\ cd_log[1].qname # cd_log[2].qname
          => Outcome(cd_log[2])
               = Outcome(FirstLookup(cd_log[1].seen0, cd_log[2].qname))

\* a well-formed standard-size stream looked up twice in strict mode: the
\* first lookup returned it, the second raised on the marks of the first
C29_Witness ==
    /\ Len(cd_log) = 2
    /\ cd_log[1].qname = cd_log[2].qname
    /\ ~cd.ignore_workbook_corruption
    /\ ReturnedStd(cd_log[1])
    /\ WellFormedStd(cd, cd.dirlist[EntryOf(cd, cd_log[1].qname)],
                     cd_log[1].seen0)
    /\ cd_log[2].exc = "CompDocError"
    /\ cd_log[2].hit

\* C29, what does hold: a second lookup of a standard-size stream in strict
\* mode never returns; a short stream, which marks nothing, is returned
\* again as before; and the lookup of a name whose walk meets no marked
\* sector gives what it would have given as the first lookup.
C29_SecondRaises ==
    Len(cd_log) = 2 =>
       /\ ( /\ cd_log[1].qname = cd_log[2].qname
            /\ ~cd.ignore_workbook_corruption
            /\ ReturnedStd(cd_log[1]) )
          => cd_log[2].exc = "CompDocError"
       /\ ( /\ cd_log[1].qname = cd_log[2].qname
            /\ cd_log[1].exc = ""
            /\ ~ReturnedStd(cd_log[1]) )
          => Outcome(cd_log[2]) = Outcome(cd_log[1])
       /\ ( /\ cd_log[1].qname # cd_log[2].qname
            /\ ~cd_log[2].hit )
          => Outcome(cd_log[2])
               = Outcome(FirstLookup(cd_log[1].seen0, cd_log[2].qname))

(***************************************************************************)
(* CompDoc.get_named_stream                                                *)
(***************************************************************************)
\* the marker of the sectors of a named stream
SeenId(d) == d.DID + 6

get_named_stream(c, qname) ==
    LET found == _dir_search(c.dirlist, split(qname))
        d == c.dirlist[found.did + 1]
        g == IF d.tot_size >= c.min_size_std_stream
             THEN _get_stream(c.seen, MemBuf, HEADER_SIZE, c.SAT, sec_size,
                              d.first_SID, d.tot_size, SeenId(d))
             ELSE _get_stream(c.seen, c.SSCS, 0, c.SSAT, short_sec_size,
                              d.first_SID, d.tot_size, -1)
    IN  IF found.exc # "" THEN LocResult(found.exc, NoneBuf, 0, 0, c.seen)
        ELSE IF found.did = -1 THEN LocResult("", NoneBuf, 0, 0, c.seen)
        ELSE IF g.exc # ""
        THEN [LocResult(g.exc, NoneBuf, 0, 0, g.seen) EXCEPT !.hit = g.hit,
                                                            !.s = g.s]
        ELSE LocResult("", BytesBuf(g.data), 0, Len(g.data), g.seen)

(***************************************************************************)
(* Specification SpecMark: lookups on the CompDoc of a container whose     *)
(* directory has few entries or about as many as a seen cell has values.   *)
(* The entries between the named streams are empty; the directory's        *)
(* sectors hold as many entries as the directory has.                      *)
(***************************************************************************)
EmptyEntry(DID) == DirNode(DID, "", 0, EOCSID, 0, <<>>)

\* number of entries of the directory: the last entry's marker is well
\* under, at, and over the largest value of a cell
DirSizes == {3, CellMax - 5, CellMax - 4, CellMax - 3}

\* entry w is the stream "Workbook", entry b the stream "Book"
MarkDir(n, w, b, f1, z1) ==
    [i \in 1 .. n |->
        IF i = 1 THEN DirNode(0, "Root Entry", 5, EOCSID, 0, <<w, b>>)
        ELSE IF i = w + 1 THEN Stream(w, "Workbook", f1, z1)
        ELSE IF i = b + 1 THEN Stream(b, "Book", NFree - 1, sec_size)
        ELSE EmptyEntry(i - 1)]

\* the stream "Workbook" is the first entry after the root and "Book" the
\* last entry of the directory, or the other way round
MarkFile(g, n, first, f1, z1) ==
    [SAT |-> TableOf(g),
     dirlist |-> MarkDir(n, IF first THEN 1 ELSE n - 1,
                         IF first THEN n - 1 ELSE 1, f1, z1),
     min_size_std_stream |-> sec_size,
     SSAT_first_sec_sid |-> EOCSID,
     SSAT_tot_secs |-> 0,
     SSATent |-> <<>>]

MarkFiles ==
    { MarkFile(g, n, first, f1, z1) :
      g \in [1 .. NFree -> {EOCSID, 0, 1}],
      n \in DirSizes,
      first \in BOOLEAN,
      f1 \in {0, 1},
      z1 \in {sec_size, 2 * sec_size} }

InitMark ==
    /\ \E cdfile \in MarkFiles, ignore \in BOOLEAN :
          /\ cd = CompDoc__init__(cdfile, ignore)
          /\ cd.exc = ""
    /\ cd_log = <<>>
    /\ file = Bare(<<>>, FALSE, 0)
    /\ bk = Book__init__
    /\ maps = NoMaps
    /\ made = 0
    /\ pc = "compdoc"
    /\ err = NoErr
    /\ raised = ""
    /\ last = NoCall
    /\ nops = 0

GetNamedStream(qname) ==
    /\ Len(cd_log) < MaxCalls
    /\ LET r == get_named_stream(cd, qname)
       IN  /\ cd' = [cd EXCEPT !.seen = r.seen]
           /\ cd_log' = Append(cd_log,
                  [qname |-> qname, exc |-> r.exc, mem |-> r.mem,
                   base |-> r.base, len |-> r.len, hit |-> r.hit,
                   seen0 |-> cd.seen])
    /\ UNCHANGED bookvars

NextMark ==
    \/ \E qname \in QNames : LocateNamedStream(qname)
    \/ \E qname \in QNames : GetNamedStream(qname)

SpecMark == InitMark /\ [][NextMark]_vars

(***************************************************************************)
(* C30: the markers written into seen                                      *)
(***************************************************************************)
\* the entry a lookup in the log resolved to is a standard-size stream:
\* its sectors are marked with its SeenId
MarksSectors(e) ==
    /\ EntryOf(cd, e.qname) # 0
    /\ IsStd(cd, cd.dirlist[EntryOf(cd, e.qname)])
    /\ cd.dirlist[EntryOf(cd, e.qname)].first_SID >= 0

\* sector s is on the chain that starts at the first sector of entry d
OnChain(s, d) ==
    \E i \in 1 .. Len(ChainFrom(cd.SAT, d.first_SID, mem_data_secs)) :
        ChainFrom(cd.SAT, d.first_SID, mem_data_secs)[i] = s

\* the sectors whose cell holds the marker of entry d
MarkedBy(d) == { s \in 0 .. (mem_data_secs - 1) : cd.seen[s + 1] = SeenId(d) }

\* C30: the marker of every stream entry that a lookup resolves to is at
\* most 255, no lookup fails on storing it, every cell of seen holds a
\* value of 0 .. 255, and the cells marked for one stream entry lie on the
\* chain of that entry and of no other marker.
C30_AsClaimed ==
    /\ \A i \in 1 .. Len(cd_log) :
          MarksSectors(cd_log[i]) =>
             /\ SeenId(cd.dirlist[EntryOf(cd, cd_log[i].qname)]) <= CellMax
             /\ cd_log[i].exc # "OverflowError"
    /\ \A s \in 1 .. Len(cd.seen) : cd.seen[s] \in 0 .. CellMax
    /\ \A k \in 2 .. Len(cd.dirlist) :
          /\ SeenId(cd.dirlist[k]) \notin 1 .. 5
          /\ \A s \in MarkedBy(cd.dirlist[k]) :
                OnChain(s, cd.dirlist[k])

\* the stream of directory entry 250 is looked up: its marker is 256
C30_Witness ==
    \E i \in 1 .. Len(cd_log) :
        /\ MarksSectors(cd_log[i])
        /\ SeenId(cd.dirlist[EntryOf(cd, cd_log[i].qname)]) = CellMax + 1
        /\ cd_log[i].exc = "OverflowError"
        /\ cd.seen = cd_log[i].seen0

\* C30, what does hold: a lookup raises OverflowError only for a marker
\* over 255, and with such a marker it never returns (it raises
\* OverflowError at the first store, or CompDocError when the first sector
\* is marked already); the cells of seen stay within 0 .. 255 and the cells
\* marked for a stream entry lie on its chain.
C30_Markers ==
    /\ \A i \in 1 .. Len(cd_log) :
          MarksSectors(cd_log[i]) =>
             /\ cd_log[i].exc = "OverflowError"
                => SeenId(cd.dirlist[EntryOf(cd, cd_log[i].qname)]) > CellMax
             /\ SeenId(cd.dirlist[EntryOf(cd, cd_log[i].qname)]) > CellMax
                => cd_log[i].exc \in {"OverflowError", "CompDocError"}
    /\ \A s \in 1 .. Len(cd.seen) : cd.seen[s] \in 0 .. CellMax
    /\ \A k \in 2 .. Len(cd.dirlist) :
          /\ SeenId(cd.dirlist[k]) \notin 1 .. 5
          /\ \A s \in MarkedBy(cd.dirlist[k]) :
                OnChain(s, cd.dirlist[k])

====
